---- MODULE Spec2Model ----
(***************************************************************************)
(* Model of ganileni/transcribe.                                           *)
(*                                                                         *)
(* Part 1: the recording session (src/src/core/recorder.py).  The session  *)
(* state lives in seven marker files under /tmp, shared by every Recorder  *)
(* instance of every process.  Two specifications are given:               *)
(*   Spec      one Recorder calling start/stop/pause/resume one after the  *)
(*             other, each call an atomic step, with a clock;              *)
(*   SpecRace  two Recorder instances in separate processes whose start    *)
(*             and stop calls interleave file operation by file operation. *)
(*                                                                         *)
(* Part 2: the transcript store (src/src/core/database.py), two SQLite     *)
(* tables reached through one connection:                                  *)
(*   SpecStore the Database methods called one after the other, each call  *)
(*             an atomic (autocommit) step, with the clock that            *)
(*             CURRENT_TIMESTAMP reads.                                    *)
(*                                                                         *)
(* Part 3: the transcript document (src/src/models.py) and the labeling    *)
(* handlers of the screens (src/src/screens/unified.py, labeling.py):      *)
(*   SpecDoc   a transcribed recording is loaded, its speakers are named   *)
(*             and the labels are saved, pass after pass;                  *)
(*   SpecYaml  documents are written with to_yaml and read back with       *)
(*             from_yaml, character by character.                          *)
(*                                                                         *)
(* Part 4: the workflow of the screens over the store and the files:       *)
(*   SpecFlow  transcription, row selection, save-labels and the summary   *)
(*             workers, interleaved step by step.                          *)
(*                                                                         *)
(* Part 5: the polling loop of the transcriber                             *)
(* (src/src/core/transcriber.py):                                          *)
(*   SpecPoll      poll_transcription pass by pass against a service that  *)
(*                 moves the job to a terminal status at any moment;       *)
(*   SpecPollFair  the same with the loop's own steps weakly fair.         *)
(*                                                                         *)
(* Part 6: the double-press deletion of the unified screen:                *)
(*   SpecDelete    delete presses, the disarming timer and its queued      *)
(*                 reset, with a clock.                                    *)
(***************************************************************************)
EXTENDS Integers, FiniteSets, Sequences, TLC

\* ------------------------------------------------------------------ bounds
\* Largest clock value, and the amounts by which one clock step advances it
\* (the grace period of stop adds StopGrace, so the clock is not confined to
\* multiples of five).
MaxTime == 40
TickSteps ==
    {5, 25}
\* Capture processes spawned in one behaviour.
MaxSpawn == 2
\* Largest clock value in SpecRace.
RaceMaxTime == 1

\* ------------------------------------------------------- program constants
\* time.sleep(2) between SIGINT and SIGKILL in Recorder.stop
StopGrace == 2

\* The seven marker files (class attributes of Recorder).
STATE_FILE == "transcribe-recording-state"
PID_FILE == "transcribe-recording-pid"
FILE_FILE == "transcribe-recording-file"
START_FILE == "transcribe-recording-start"
PAUSE_FILE == "transcribe-recording-paused"
PAUSED_AT_FILE == "transcribe-recording-paused-at"
PAUSED_TOTAL_FILE == "transcribe-recording-paused-total"

\* Mutant: the paused-total marker is missing from the cleanup list.
CleanupOrderWithoutTotal ==
    << STATE_FILE, PID_FILE, FILE_FILE, START_FILE,
       PAUSE_FILE, PAUSED_AT_FILE >>

\* The order in which Recorder.stop unlinks the markers.
CleanupOrder ==
    << STATE_FILE, PID_FILE, FILE_FILE, START_FILE,
       PAUSE_FILE, PAUSED_AT_FILE, PAUSED_TOTAL_FILE >>

Markers ==
    { STATE_FILE, PID_FILE, FILE_FILE, START_FILE,
      PAUSE_FILE, PAUSED_AT_FILE, PAUSED_TOTAL_FILE }

\* A marker file that does not exist; an existing file holds an integer >= 0
\* (a touched file is empty, modelled as 0).
Absent == -1

Recorders == {1, 2}

\* A column holding SQL NULL (Python None); ids, paths and timestamps are
\* integers >= 0.
NULL == -1

VARIABLES
    fs,        \* marker file name -> content, or Absent
    procs,     \* capture process id -> "none" | "running" | "stopped" | "dead"
    now,       \* int(time.time())
    recorded,  \* history: seconds the current session has spent Recording
    last,      \* history: the most recent call of Spec and how it ended
    pc,        \* SpecRace: position of each Recorder inside start()/stop()
    loc,       \* SpecRace: local variables of each Recorder's running call
    audio_files,  \* SpecStore: the rows of table audio_files
    transcripts,  \* SpecStore: the rows of table transcripts
    lastrowid,    \* SpecStore: sqlite3_last_insert_rowid() of the connection
    dbres,        \* SpecStore history: the most recent Database call
    steps,        \* SpecStore: steps taken so far, queries not counted
    doc,          \* SpecDoc, SpecYaml: the TranscriptData held in memory
    summary,      \* SpecDoc: the text of the transcript's summary file
    yaml,         \* SpecYaml: the text of the transcript file
    docres,       \* history: the most recent document operation
    docsteps,     \* SpecDoc: document operations applied so far
    transcript_files,  \* SpecFlow: transcript path -> the file's document
    summary_files,     \* SpecFlow: the summary files that exist
    current,           \* SpecFlow: screen -> its loaded transcript
    workers,           \* SpecFlow: worker name -> its position and locals
    flowres,           \* SpecFlow history: the most recent workflow step
    poll,              \* SpecPoll: position and locals of poll_transcription
    service,           \* SpecPoll: the status the transcription service holds
    delete_pending_path,  \* SpecDelete: UnifiedScreen._delete_pending_path
    delete_timer,         \* SpecDelete: UnifiedScreen._delete_timer
    reset_calls,          \* SpecDelete: resets queued by call_from_thread
    audio_on_disk,        \* SpecDelete: the audio files that exist
    preceding,            \* SpecDelete history: the preceding delete press
    presses               \* SpecDelete: delete presses so far

storeVars == << audio_files, transcripts, lastrowid, dbres, steps >>

docVars == << doc, summary, yaml, docres, docsteps >>

flowVars == << transcript_files, summary_files, current, workers, flowres >>

pollVars == << poll, service >>

deleteVars ==
    << delete_pending_path, delete_timer, reset_calls, audio_on_disk,
       preceding, presses >>

vars ==
    << fs, procs, now, recorded, last, pc, loc, storeVars, docVars, flowVars,
       pollVars, deleteVars >>

\* A str is the sequence of its characters; None as a speaker name is the
\* empty sequence (a name is None or non-empty: convert_to_transcript_data
\* creates speakers without a name and the screens store stripped,
\* non-empty input only).
None == << >>

\* No transcript loaded, no file written, no document operation yet.
NoDoc ==
    [speakers |-> << >>, utterances |-> << >>,
     duration_seconds |-> 0, labeled |-> FALSE]

\* origin is the speaker identifier each utterance was transcribed with.
NoDocRes ==
    [op |-> "none", pre |-> NoDoc, presummary |-> << >>,
     arg |-> [speaker |-> None, name |-> None, num_samples |-> 0, offset |-> 0],
     ret |-> << >>, raised |-> "none", origin |-> << >>]

\* ------------------------------------------------------------- file system
Exists(f, name) ==
    f[name] # Absent

WriteText(f, name, v) ==
    [f EXCEPT ![name] = v]

Touch(f, name) ==
    IF Exists(f, name) THEN f ELSE [f EXCEPT ![name] = 0]

Unlink(f, name) ==
    [f EXCEPT ![name] = Absent]

NoMarkers ==
    [m \in Markers |-> Absent]

\* ---------------------------------------------------------------- processes
Pids ==
    1..MaxSpawn

Alive(p, pid) ==
    pid \in DOMAIN p /\ p[pid] \in {"running", "stopped"}

NumSpawned(p) ==
    Cardinality({pid \in DOMAIN p : p[pid] # "none"})

\* subprocess.Popen: the next process id, now running.
Popen(p) ==
    [p EXCEPT ![NumSpawned(p) + 1] = "running"]

\* os.kill(pid, sig) on a process that exists.
Signal(p, pid, sig) ==
    CASE sig = "SIGSTOP" -> [p EXCEPT ![pid] = "stopped"]
      [] sig = "SIGCONT" -> [p EXCEPT ![pid] = "running"]
      [] sig = "SIGKILL" -> [p EXCEPT ![pid] = "dead"]
      [] OTHER -> p

\* ------------------------------------------------------------------ queries
is_recording(f) ==
    Exists(f, STATE_FILE)

is_paused(f) ==
    Exists(f, PAUSE_FILE)

Max(a, b) ==
    IF a >= b THEN a ELSE b

\* Mutant: the pause in progress is not counted.
get_paused_total_accumulated_only(f, t) ==
    IF Exists(f, PAUSED_TOTAL_FILE) THEN f[PAUSED_TOTAL_FILE] ELSE 0

get_paused_total(f, t) ==
    LET total == IF Exists(f, PAUSED_TOTAL_FILE) THEN f[PAUSED_TOTAL_FILE] ELSE 0
    IN  IF is_paused(f) /\ Exists(f, PAUSED_AT_FILE)
        THEN total + (t - f[PAUSED_AT_FILE])
        ELSE total

get_duration_seconds(f, t) ==
    IF ~Exists(f, START_FILE)
    THEN 0
    ELSE Max(0, t - f[START_FILE] - get_paused_total(f, t))

get_current_file(f) ==
    IF Exists(f, FILE_FILE) THEN f[FILE_FILE] ELSE Absent

\* -------------------------------------------------------------- operations
\* Each operation maps the marker files f, the process table p and the clock
\* t to the files and processes it leaves and to how the call ended (res).

Outcome(f, p, res, ret, dt) ==
    [fs |-> f, procs |-> p, res |-> res, ret |-> ret, dt |-> dt]

\* Mutant: no is_recording check.
start_unguarded(f, p, t, spawnOk) ==
    IF ~spawnOk
    THEN Outcome(f, p, "OSError", Absent, 0)
    ELSE LET pid == NumSpawned(p) + 1
             f1 == WriteText(f, PID_FILE, pid)
             f2 == WriteText(f1, FILE_FILE, t)
             f3 == WriteText(f2, START_FILE, t)
         IN  Outcome(Touch(f3, STATE_FILE), Popen(p), "ok", t, 0)

\* Recorder.start.  spawnOk: whether subprocess.Popen could start ffmpeg.
\* The output file is named after the current second.
start(f, p, t, spawnOk) ==
    IF is_recording(f)
    THEN Outcome(f, p, "RecordingError", Absent, 0)
    ELSE IF ~spawnOk
    THEN Outcome(f, p, "OSError", Absent, 0)
    ELSE LET pid == NumSpawned(p) + 1
             output_file == t
             f1 == WriteText(f, PID_FILE, pid)
             f2 == WriteText(f1, FILE_FILE, output_file)
             f3 == WriteText(f2, START_FILE, t)
             f4 == Touch(f3, STATE_FILE)
         IN  Outcome(f4, Popen(p), "ok", output_file, 0)

\* Mutant: the paused flag is set but the pause instant is not recorded.
pause_without_paused_at(f, p, t) ==
    IF ~is_recording(f) \/ is_paused(f)
    THEN Outcome(f, p, "ok", Absent, 0)
    ELSE IF ~Exists(f, PID_FILE)
    THEN Outcome(f, p, "ok", Absent, 0)
    ELSE IF ~Alive(p, f[PID_FILE])
    THEN Outcome(f, p, "ProcessLookupError", Absent, 0)
    ELSE Outcome(Touch(f, PAUSE_FILE), Signal(p, f[PID_FILE], "SIGSTOP"), "ok", Absent, 0)

\* Mutant: an already paused session is paused again.
pause_again(f, p, t) ==
    IF ~is_recording(f)
    THEN Outcome(f, p, "ok", Absent, 0)
    ELSE IF ~Exists(f, PID_FILE)
    THEN Outcome(f, p, "ok", Absent, 0)
    ELSE IF ~Alive(p, f[PID_FILE])
    THEN Outcome(f, p, "ProcessLookupError", Absent, 0)
    ELSE LET f1 == WriteText(f, PAUSED_AT_FILE, t)
             f2 == Touch(f1, PAUSE_FILE)
         IN  Outcome(f2, Signal(p, f[PID_FILE], "SIGSTOP"), "ok", Absent, 0)

\* Recorder.pause.
pause(f, p, t) ==
    IF ~is_recording(f) \/ is_paused(f)
    THEN Outcome(f, p, "ok", Absent, 0)
    ELSE IF ~Exists(f, PID_FILE)
    THEN Outcome(f, p, "ok", Absent, 0)
    ELSE IF ~Alive(p, f[PID_FILE])
    THEN Outcome(f, p, "ProcessLookupError", Absent, 0)
    ELSE LET f1 == WriteText(f, PAUSED_AT_FILE, t)
             f2 == Touch(f1, PAUSE_FILE)
         IN  Outcome(f2, Signal(p, f[PID_FILE], "SIGSTOP"), "ok", Absent, 0)

\* Mutant: the paused total is overwritten by the last pause, not added to.
resume_overwrite_total(f, p, t) ==
    IF ~is_paused(f)
    THEN Outcome(f, p, "ok", Absent, 0)
    ELSE IF Exists(f, PID_FILE) /\ ~Alive(p, f[PID_FILE])
    THEN Outcome(f, p, "ProcessLookupError", Absent, 0)
    ELSE LET p1 == IF Exists(f, PID_FILE)
                   THEN Signal(p, f[PID_FILE], "SIGCONT")
                   ELSE p
             f1 == IF Exists(f, PAUSED_AT_FILE)
                   THEN Unlink(WriteText(f, PAUSED_TOTAL_FILE, t - f[PAUSED_AT_FILE]),
                               PAUSED_AT_FILE)
                   ELSE f
         IN  Outcome(Unlink(f1, PAUSE_FILE), p1, "ok", Absent, 0)

\* Recorder.resume.
resume(f, p, t) ==
    IF ~is_paused(f)
    THEN Outcome(f, p, "ok", Absent, 0)
    ELSE IF Exists(f, PID_FILE) /\ ~Alive(p, f[PID_FILE])
    THEN Outcome(f, p, "ProcessLookupError", Absent, 0)
    ELSE LET p1 == IF Exists(f, PID_FILE)
                   THEN Signal(p, f[PID_FILE], "SIGCONT")
                   ELSE p
             prev_total == IF Exists(f, PAUSED_TOTAL_FILE)
                           THEN f[PAUSED_TOTAL_FILE]
                           ELSE 0
             f1 == IF Exists(f, PAUSED_AT_FILE)
                   THEN Unlink(WriteText(f, PAUSED_TOTAL_FILE,
                                         prev_total + (t - f[PAUSED_AT_FILE])),
                               PAUSED_AT_FILE)
                   ELSE f
         IN  Outcome(Unlink(f1, PAUSE_FILE), p1, "ok", Absent, 0)

\* The loop over the state files at the end of Recorder.stop.
RECURSIVE Cleanup(_, _)
Cleanup(f, i) ==
    IF i > Len(CleanupOrder)
    THEN f
    ELSE Cleanup(IF Exists(f, CleanupOrder[i]) THEN Unlink(f, CleanupOrder[i]) ELSE f,
                 i + 1)

\* Mutant: stop as it would be without the pause feature: no resume first,
\* and only the four session markers are unlinked.
stop_before_pause(f, p, t, outputExists) ==
    IF ~is_recording(f)
    THEN Outcome(f, p, "None", Absent, 0)
    ELSE LET output_file == get_current_file(f)
             delivered == Exists(f, PID_FILE) /\ Alive(p, f[PID_FILE])
             p1 == IF delivered THEN Signal(p, f[PID_FILE], "SIGKILL") ELSE p
             f1 == Unlink(Unlink(Unlink(Unlink(f, STATE_FILE), PID_FILE), FILE_FILE),
                          START_FILE)
         IN  IF output_file # Absent /\ outputExists
             THEN Outcome(f1, p1, "path", output_file, IF delivered THEN StopGrace ELSE 0)
             ELSE Outcome(f1, p1, "None", Absent, IF delivered THEN StopGrace ELSE 0)

\* Recorder.stop.  outputExists: whether ffmpeg left the staged output file.
\* SIGINT, the grace period and SIGKILL leave a process that existed dead;
\* a process id that no longer exists raises ProcessLookupError, caught here.
stop(f, p, t, outputExists) ==
    IF ~is_recording(f)
    THEN Outcome(f, p, "None", Absent, 0)
    ELSE LET r == IF is_paused(f) THEN resume(f, p, t) ELSE Outcome(f, p, "ok", Absent, 0)
         IN  IF r.res # "ok"
             THEN Outcome(f, p, r.res, Absent, 0)
             ELSE LET output_file == get_current_file(r.fs)
                      delivered == Exists(r.fs, PID_FILE) /\ Alive(r.procs, r.fs[PID_FILE])
                      p1 == IF delivered
                            THEN Signal(Signal(r.procs, r.fs[PID_FILE], "SIGINT"),
                                        r.fs[PID_FILE], "SIGKILL")
                            ELSE r.procs
                      f1 == Cleanup(r.fs, 1)
                  IN  IF output_file # Absent /\ outputExists
                      THEN Outcome(f1, p1, "path", output_file, IF delivered THEN StopGrace ELSE 0)
                      ELSE Outcome(f1, p1, "None", Absent, IF delivered THEN StopGrace ELSE 0)

\* ----------------------------------------------------------------- actions
Called(op, r) ==
    [op |-> op, res |-> r.res, ret |-> r.ret,
     wasRecording |-> is_recording(fs), wasPaused |-> is_paused(fs)]

\* No transcript file, no summary file, nothing loaded in a screen, no worker
\* running, no workflow step yet.
NoFile ==
    [exists |-> FALSE, named |-> FALSE, labeled |-> FALSE]

NoCurrent ==
    [path |-> NULL, named |-> FALSE, labeled |-> FALSE]

WorkerIdle ==
    [pc |-> "idle", path |-> NULL, summary_path |-> NULL]

NoFlowRes ==
    [op |-> "none", calls |-> {}, failed |-> {},
     audio_files |-> {}, transcripts |-> {}]

FlowIdle ==
    /\ transcript_files = [p \in {1, 2} |-> NoFile]
    /\ summary_files = {}
    /\ current = [s \in {"unified", "labeling"} |-> NoCurrent]
    /\ workers = [w \in {"transcribe", "summarize", "regenerate"} |->
                     WorkerIdle]
    /\ flowres = NoFlowRes

\* poll_transcription has not been called and the service has the job queued.
NoPoll ==
    [pc |-> "idle", polls |-> 0, status_code |-> 0, status |-> "none",
     ret |-> "none"]

PollIdle ==
    /\ poll = NoPoll
    /\ service = "queued"

\* No delete press yet: nothing armed, no timer, no file.
NoTimer ==
    [state |-> "none", due |-> 0]

NoPress ==
    [path |-> NULL, deleted |-> FALSE, reset_since |-> FALSE]

DeleteIdle ==
    /\ delete_pending_path = NULL
    /\ delete_timer = NoTimer
    /\ reset_calls = 0
    /\ audio_on_disk = {}
    /\ preceding = NoPress
    /\ presses = 0

DocIdle ==
    /\ doc = NoDoc
    /\ summary = << >>
    /\ yaml = << >>
    /\ docres = NoDocRes
    /\ docsteps = 0

Init ==
    /\ DocIdle
    /\ FlowIdle
    /\ PollIdle
    /\ DeleteIdle
    /\ fs = NoMarkers
    /\ procs = [pid \in Pids |-> "none"]
    /\ now = 0
    /\ recorded = 0
    /\ last = [op |-> "none", res |-> "ok", ret |-> Absent,
               wasRecording |-> FALSE, wasPaused |-> FALSE]
    /\ pc = [r \in Recorders |-> "idle"]
    /\ loc = [r \in Recorders |-> [pid |-> Absent, out |-> Absent, i |-> 0, res |-> "none"]]
    /\ audio_files = {}
    /\ transcripts = {}
    /\ lastrowid = 0
    /\ dbres = [op |-> "none", path |-> NULL, ret |-> NULL, known |-> FALSE]
    /\ steps = 0

\* The clock advances; the history counts the seconds spent Recording.
Tick ==
    \E d \in TickSteps :
        /\ now + d <= MaxTime
        /\ now' = now + d
        /\ recorded' = IF is_recording(fs) /\ ~is_paused(fs)
                       THEN recorded + d
                       ELSE recorded
        /\ UNCHANGED << fs, procs, last, pc, loc, storeVars, docVars,
                    flowVars, pollVars, deleteVars >>

\* The capture process exits on its own (ffmpeg fails, or is killed from
\* outside) and is reaped: its process id no longer exists.
ProcExit ==
    \E pid \in Pids :
        /\ Alive(procs, pid)
        /\ procs' = [procs EXCEPT ![pid] = "dead"]
        /\ UNCHANGED << fs, now, recorded, last, pc, loc, storeVars, docVars,
                    flowVars, pollVars, deleteVars >>

Start ==
    \E spawnOk \in BOOLEAN :
        /\ (~is_recording(fs) /\ spawnOk) => NumSpawned(procs) < MaxSpawn
        /\ LET r == start(fs, procs, now, spawnOk)
           IN
            /\ fs' = r.fs
            /\ procs' = r.procs
            /\ recorded' = IF r.res = "ok" THEN 0 ELSE recorded
            /\ last' = Called("start", r)
            /\ UNCHANGED << now, pc, loc, storeVars, docVars,
                    flowVars, pollVars, deleteVars >>

Pause ==
    LET r == pause(fs, procs, now)
    IN  /\ fs' = r.fs
        /\ procs' = r.procs
        /\ last' = Called("pause", r)
        /\ UNCHANGED << now, recorded, pc, loc, storeVars, docVars,
                    flowVars, pollVars, deleteVars >>

Resume ==
    LET r == resume(fs, procs, now)
    IN  /\ fs' = r.fs
        /\ procs' = r.procs
        /\ last' = Called("resume", r)
        /\ UNCHANGED << now, recorded, pc, loc, storeVars, docVars,
                    flowVars, pollVars, deleteVars >>

Stop ==
    \E outputExists \in BOOLEAN :
        LET r == stop(fs, procs, now, outputExists)
        IN  /\ now + r.dt <= MaxTime
            /\ fs' = r.fs
            /\ procs' = r.procs
            /\ now' = now + r.dt
            /\ recorded' = IF is_recording(r.fs) THEN recorded ELSE 0
            /\ last' = Called("stop", r)
            /\ UNCHANGED << pc, loc, storeVars, docVars,
                    flowVars, pollVars, deleteVars >>

Next ==
    \/ Tick
    \/ ProcExit
    \/ Start
    \/ Pause
    \/ Resume
    \/ Stop

Spec ==
    Init /\ [][Next]_vars

\* ------------------------------------------------------------- SpecRace
\* Two Recorder instances, each in its own process, share the marker files.
\* start() and stop() are taken one file or process operation at a time;
\* pc[r] is the next operation of Recorder r and loc[r] holds its local
\* variables (pid, output_file, the cleanup loop index) and, in res, how its
\* last call ended.  pause() and resume() are taken whole.

Goto(r, label) ==
    pc' = [pc EXCEPT ![r] = label]

\* start: `if self.is_recording: raise RecordingError`, then the file name.
RStartCheck(r) ==
    /\ pc[r] = "idle"
    /\ IF is_recording(fs)
       THEN /\ loc' = [loc EXCEPT ![r].res = "RecordingError"]
            /\ pc' = pc
       ELSE /\ loc' = [loc EXCEPT ![r].out = now, ![r].res = "running"]
            /\ Goto(r, "start_popen")
    /\ UNCHANGED << fs, procs, now, recorded, last, storeVars, docVars,
                    flowVars, pollVars, deleteVars >>

\* start: subprocess.Popen(cmd).
RStartPopen(r) ==
    /\ pc[r] = "start_popen"
    /\ \E spawnOk \in BOOLEAN :
          IF spawnOk
          THEN /\ NumSpawned(procs) < MaxSpawn
               /\ procs' = Popen(procs)
               /\ loc' = [loc EXCEPT ![r].pid = NumSpawned(procs) + 1]
               /\ Goto(r, "start_write_pid")
          ELSE /\ procs' = procs
               /\ loc' = [loc EXCEPT ![r].res = "OSError"]
               /\ Goto(r, "idle")
    /\ UNCHANGED << fs, now, recorded, last, storeVars, docVars,
                    flowVars, pollVars, deleteVars >>

\* start: self.PID_FILE.write_text(str(self._process.pid))
RStartWritePid(r) ==
    /\ pc[r] = "start_write_pid"
    /\ fs' = WriteText(fs, PID_FILE, loc[r].pid)
    /\ Goto(r, "start_write_file")
    /\ UNCHANGED << procs, now, recorded, last, loc, storeVars, docVars,
                    flowVars, pollVars, deleteVars >>

\* start: self.FILE_FILE.write_text(str(output_file))
RStartWriteFile(r) ==
    /\ pc[r] = "start_write_file"
    /\ fs' = WriteText(fs, FILE_FILE, loc[r].out)
    /\ Goto(r, "start_write_start")
    /\ UNCHANGED << procs, now, recorded, last, loc, storeVars, docVars,
                    flowVars, pollVars, deleteVars >>

\* start: self.START_FILE.write_text(str(int(time.time())))
RStartWriteStart(r) ==
    /\ pc[r] = "start_write_start"
    /\ fs' = WriteText(fs, START_FILE, now)
    /\ Goto(r, "start_touch")
    /\ UNCHANGED << procs, now, recorded, last, loc, storeVars, docVars,
                    flowVars, pollVars, deleteVars >>

\* start: self.STATE_FILE.touch(), and return.
RStartTouch(r) ==
    /\ pc[r] = "start_touch"
    /\ fs' = Touch(fs, STATE_FILE)
    /\ loc' = [loc EXCEPT ![r].res = "ok"]
    /\ Goto(r, "idle")
    /\ UNCHANGED << procs, now, recorded, last, storeVars, docVars,
                    flowVars, pollVars, deleteVars >>

\* stop: `if not self.is_recording: return None`.
RStopCheck(r) ==
    /\ pc[r] = "idle"
    /\ IF ~is_recording(fs)
       THEN /\ loc' = [loc EXCEPT ![r].res = "None"]
            /\ pc' = pc
       ELSE /\ loc' = [loc EXCEPT ![r].res = "running"]
            /\ Goto(r, "stop_resume")
    /\ UNCHANGED << fs, procs, now, recorded, last, storeVars, docVars,
                    flowVars, pollVars, deleteVars >>

\* stop: `if self.is_paused: self.resume()`; an exception of resume ends stop.
RStopResume(r) ==
    /\ pc[r] = "stop_resume"
    /\ LET x == IF is_paused(fs)
                THEN resume(fs, procs, now)
                ELSE Outcome(fs, procs, "ok", Absent, 0)
       IN  /\ fs' = x.fs
           /\ procs' = x.procs
           /\ IF x.res = "ok"
              THEN /\ Goto(r, "stop_get_file")
                   /\ loc' = loc
              ELSE /\ Goto(r, "idle")
                   /\ loc' = [loc EXCEPT ![r].res = x.res]
    /\ UNCHANGED << now, recorded, last, storeVars, docVars,
                    flowVars, pollVars, deleteVars >>

\* stop: output_file = self.get_current_file()
RStopGetFile(r) ==
    /\ pc[r] = "stop_get_file"
    /\ loc' = [loc EXCEPT ![r].out = get_current_file(fs)]
    /\ Goto(r, "stop_sigint")
    /\ UNCHANGED << fs, procs, now, recorded, last, storeVars, docVars,
                    flowVars, pollVars, deleteVars >>

\* stop: read the pid marker and os.kill(pid, SIGINT).  Without a pid marker,
\* or with a pid that no longer exists, control passes to the cleanup.  A
\* running ffmpeg may exit at once or still be finalising after the sleep.
RStopSigint(r) ==
    /\ pc[r] = "stop_sigint"
    /\ IF Exists(fs, PID_FILE) /\ Alive(procs, fs[PID_FILE])
       THEN /\ loc' = [loc EXCEPT ![r].pid = fs[PID_FILE]]
            /\ \E exits \in BOOLEAN :
                  procs' = IF exits /\ procs[fs[PID_FILE]] = "running"
                           THEN [procs EXCEPT ![fs[PID_FILE]] = "dead"]
                           ELSE procs
            /\ Goto(r, "stop_sigkill")
       ELSE /\ loc' = [loc EXCEPT ![r].i = 1]
            /\ procs' = procs
            /\ Goto(r, "stop_unlink")
    /\ UNCHANGED << fs, now, recorded, last, storeVars, docVars,
                    flowVars, pollVars, deleteVars >>

\* stop: after the sleep, os.kill(pid, SIGKILL); ProcessLookupError is passed.
RStopSigkill(r) ==
    /\ pc[r] = "stop_sigkill"
    /\ procs' = IF Alive(procs, loc[r].pid)
                THEN Signal(procs, loc[r].pid, "SIGKILL")
                ELSE procs
    /\ loc' = [loc EXCEPT ![r].i = 1]
    /\ Goto(r, "stop_unlink")
    /\ UNCHANGED << fs, now, recorded, last, storeVars, docVars,
                    flowVars, pollVars, deleteVars >>

\* stop: one round of `for f in [...]: if f.exists(): f.unlink()`.
RStopUnlink(r) ==
    /\ pc[r] = "stop_unlink"
    /\ loc[r].i \in 1..Len(CleanupOrder)
    /\ fs' = IF Exists(fs, CleanupOrder[loc[r].i])
             THEN Unlink(fs, CleanupOrder[loc[r].i])
             ELSE fs
    /\ loc' = [loc EXCEPT ![r].i = loc[r].i + 1]
    /\ IF loc[r].i = Len(CleanupOrder)
       THEN Goto(r, "stop_return")
       ELSE pc' = pc
    /\ UNCHANGED << procs, now, recorded, last, storeVars, docVars,
                    flowVars, pollVars, deleteVars >>

\* stop: move the staged output file if it exists, and return.
RStopReturn(r) ==
    /\ pc[r] = "stop_return"
    /\ \E outputExists \in BOOLEAN :
          loc' = [loc EXCEPT ![r].res =
                     IF loc[r].out # Absent /\ outputExists THEN "path" ELSE "None",
                  ![r].i = 0]
    /\ Goto(r, "idle")
    /\ UNCHANGED << fs, procs, now, recorded, last, storeVars, docVars,
                    flowVars, pollVars, deleteVars >>

RPause(r) ==
    /\ pc[r] = "idle"
    /\ LET x == pause(fs, procs, now)
       IN  /\ fs' = x.fs
           /\ procs' = x.procs
           /\ loc' = [loc EXCEPT ![r].res = x.res]
    /\ UNCHANGED << now, recorded, last, pc, storeVars, docVars,
                    flowVars, pollVars, deleteVars >>

RResume(r) ==
    /\ pc[r] = "idle"
    /\ LET x == resume(fs, procs, now)
       IN  /\ fs' = x.fs
           /\ procs' = x.procs
           /\ loc' = [loc EXCEPT ![r].res = x.res]
    /\ UNCHANGED << now, recorded, last, pc, storeVars, docVars,
                    flowVars, pollVars, deleteVars >>

RaceTick ==
    /\ now < RaceMaxTime
    /\ now' = now + 1
    /\ UNCHANGED << fs, procs, recorded, last, pc, loc, storeVars, docVars,
                    flowVars, pollVars, deleteVars >>

NextRace ==
    \/ \E r \in Recorders : RStartCheck(r)
    \/ \E r \in Recorders : RStartPopen(r)
    \/ \E r \in Recorders : RStartWritePid(r)
    \/ \E r \in Recorders : RStartWriteFile(r)
    \/ \E r \in Recorders : RStartWriteStart(r)
    \/ \E r \in Recorders : RStartTouch(r)
    \/ \E r \in Recorders : RStopCheck(r)
    \/ \E r \in Recorders : RStopResume(r)
    \/ \E r \in Recorders : RStopGetFile(r)
    \/ \E r \in Recorders : RStopSigint(r)
    \/ \E r \in Recorders : RStopSigkill(r)
    \/ \E r \in Recorders : RStopUnlink(r)
    \/ \E r \in Recorders : RStopReturn(r)
    \/ \E r \in Recorders : RPause(r)
    \/ \E r \in Recorders : RResume(r)
    \/ RaceTick
    \/ ProcExit

SpecRace ==
    Init /\ [][NextRace]_vars

\* ------------------------------------------------------ claims under Spec
\* The session state derived from the active and paused markers.
SessionState(f) ==
    IF is_recording(f)
    THEN IF is_paused(f) THEN "Paused" ELSE "Recording"
    ELSE IF is_paused(f) THEN "PausedNotRecording" ELSE "Idle"

\* The elapsed time as the specification states it.
ElapsedFormula ==
    IF ~Exists(fs, START_FILE)
    THEN 0
    ELSE Max(0, now - fs[START_FILE]
                - (IF Exists(fs, PAUSED_TOTAL_FILE) THEN fs[PAUSED_TOTAL_FILE] ELSE 0)
                - (IF is_paused(fs) THEN now - fs[PAUSED_AT_FILE] ELSE 0))

\* C2: get_duration_seconds() is 0 without a start marker and otherwise
\* max(0, now - start - accumulated_paused - (now - paused_at if paused)),
\* and that value is the time the session has spent Recording since start.
C2_ElapsedIsRecordingTime ==
    /\ get_duration_seconds(fs, now) = ElapsedFormula
    /\ Exists(fs, START_FILE) => get_duration_seconds(fs, now) = recorded
    /\ ~Exists(fs, START_FILE) => get_duration_seconds(fs, now) = 0

\* A second pause of a session, some time into it, after an earlier pause
\* of non-zero length and some recorded time.
C2_Witness ==
    /\ is_paused(fs)
    /\ Exists(fs, PAUSED_TOTAL_FILE)
    /\ fs[PAUSED_TOTAL_FILE] > 0
    /\ now > fs[PAUSED_AT_FILE]
    /\ get_duration_seconds(fs, now) > 0
    /\ get_duration_seconds(fs, now) < now - fs[START_FILE] - fs[PAUSED_TOTAL_FILE]

\* C3, the worked example: start at 0, pause at 5; while still paused the
\* elapsed time is 5 at any later clock value; after resume at 30 it is 15
\* at clock value 40.
C3_Example ==
    /\ (/\ Exists(fs, START_FILE) /\ fs[START_FILE] = 0
        /\ is_paused(fs) /\ fs[PAUSED_AT_FILE] = 5
        /\ ~Exists(fs, PAUSED_TOTAL_FILE))
       => get_duration_seconds(fs, now) = 5
    /\ (/\ Exists(fs, START_FILE) /\ fs[START_FILE] = 0
        /\ ~is_paused(fs)
        /\ Exists(fs, PAUSED_TOTAL_FILE) /\ fs[PAUSED_TOTAL_FILE] = 25
        /\ now = 40)
       => get_duration_seconds(fs, now) = 15

\* C3: while the session stays paused the elapsed time does not change,
\* however far the clock advances; resume() continues from the value the
\* pause froze; between start and stop the elapsed time never decreases.
C3_PausedTimeNotCounted ==
    /\ [][(is_paused(fs) /\ is_paused(fs'))
            => get_duration_seconds(fs', now') = get_duration_seconds(fs, now)]_vars
    /\ [][(is_paused(fs) /\ ~is_paused(fs') /\ is_recording(fs'))
            => get_duration_seconds(fs', now') = get_duration_seconds(fs, now)]_vars
    /\ [][(is_recording(fs) /\ is_recording(fs'))
            => get_duration_seconds(fs', now') >= get_duration_seconds(fs, now)]_vars
    /\ []C3_Example

\* The example's last query: started at 0, paused from 5 to 30, now 40.
C3_Witness ==
    /\ Exists(fs, START_FILE) /\ fs[START_FILE] = 0
    /\ last.op = "resume" /\ last.res = "ok" /\ last.wasPaused
    /\ fs[PAUSED_TOTAL_FILE] = 25
    /\ now = 40
    /\ get_duration_seconds(fs, now) = 15

\* C4: the session state moves only Idle -> Recording by start,
\* Recording -> Paused by pause, Paused -> Recording by resume, and
\* Recording -> Idle or Paused -> Idle by stop; 'paused but not recording'
\* is never entered.
C4_Step ==
    LET a == SessionState(fs)
        b == SessionState(fs')
    IN  \/ a = b
        \/ a = "Idle" /\ b = "Recording" /\ last'.op = "start"
        \/ a = "Recording" /\ b = "Paused" /\ last'.op = "pause"
        \/ a = "Paused" /\ b = "Recording" /\ last'.op = "resume"
        \/ a \in {"Recording", "Paused"} /\ b = "Idle" /\ last'.op = "stop"

C4_StateMachine ==
    /\ [][C4_Step]_vars
    /\ [](SessionState(fs) # "PausedNotRecording")

\* A stop taken from Paused that left the session Idle.
C4_Witness ==
    /\ last.op = "stop"
    /\ last.wasPaused
    /\ last.wasRecording
    /\ SessionState(fs) = "Idle"

\* C5: start() while is_recording() fails with the already-recording error,
\* spawns no capture process and leaves every marker unchanged.
C5_StartWhileRecording ==
    [][(is_recording(fs) /\ Start)
         => (/\ last'.res = "RecordingError"
             /\ fs' = fs
             /\ procs' = procs)]_vars

\* A start() refused while the session was paused and had paused time.
C5_Witness ==
    /\ last.op = "start"
    /\ last.wasRecording
    /\ last.wasPaused
    /\ last.res = "RecordingError"
    /\ Exists(fs, PAUSED_TOTAL_FILE)
    /\ NumSpawned(procs) = 1

\* C7: after stop() returns from Recording or Paused all seven markers are
\* gone: not recording, not paused, elapsed 0, no current output path; the
\* start() that follows is accepted and counts from 0 with no paused total.
C7_StopClearsAll ==
    /\ []((last.op = "stop" /\ last.wasRecording /\ last.res \in {"path", "None"})
            => (/\ \A m \in Markers : ~Exists(fs, m)
                /\ ~is_recording(fs)
                /\ ~is_paused(fs)
                /\ get_duration_seconds(fs, now) = 0
                /\ get_current_file(fs) = Absent))
    /\ []((last.op = "start" /\ ~last.wasRecording /\ last.res = "ok")
            => (/\ ~Exists(fs, PAUSED_TOTAL_FILE)
                /\ ~Exists(fs, PAUSED_AT_FILE)
                /\ ~is_paused(fs)
                /\ get_duration_seconds(fs, now) = now - fs[START_FILE]))
    /\ [][(last.op = "stop" /\ last.wasRecording /\ last.res \in {"path", "None"}
           /\ Start /\ last'.res # "OSError")
            => (last'.res = "ok" /\ get_duration_seconds(fs', now') = 0)]_vars

\* A second session, started after the first one was stopped, some time in.
C7_Witness ==
    /\ last.op = "start"
    /\ last.res = "ok"
    /\ NumSpawned(procs) = 2
    /\ procs[1] = "dead"
    /\ now > fs[START_FILE]

\* C11: in every state reached by any sequence of start/pause/resume/stop
\* calls, also ones that end in an error, is_paused() is true only when
\* is_recording() is true.
C11_PausedOnlyWhenRecording ==
    is_paused(fs) => is_recording(fs)

\* A paused session on which a call has just ended in an error.
C11_Witness ==
    /\ is_paused(fs)
    /\ is_recording(fs)
    /\ last.res = "ProcessLookupError"

\* C12: after every completed start/pause/resume/stop the paused-at marker
\* is present exactly when the paused flag marker is present.
C12_PausedAtIffPaused ==
    Exists(fs, PAUSED_AT_FILE) <=> is_paused(fs)

\* A session paused for the second time: both markers present again.
C12_Witness ==
    /\ last.op = "pause"
    /\ last.res = "ok"
    /\ is_paused(fs)
    /\ Exists(fs, PAUSED_AT_FILE)
    /\ Exists(fs, PAUSED_TOTAL_FILE)

\* C13: pause() when not recording or already paused, resume() when not
\* paused and stop() when not recording send no signal and leave every
\* marker unchanged (so elapsed() is unchanged), and that stop() returns None.
C13_NoOps ==
    /\ [][((~is_recording(fs) \/ is_paused(fs)) /\ Pause)
            => (/\ fs' = fs /\ procs' = procs /\ last'.res = "ok"
                /\ get_duration_seconds(fs', now') = get_duration_seconds(fs, now))]_vars
    /\ [][(~is_paused(fs) /\ Resume)
            => (fs' = fs /\ procs' = procs /\ last'.res = "ok")]_vars
    /\ [][(~is_recording(fs) /\ Stop)
            => (fs' = fs /\ procs' = procs /\ now' = now /\ last'.res = "None")]_vars

\* A second pause() some time after the first.
C13_Witness ==
    /\ last.op = "pause"
    /\ last.wasPaused
    /\ last.res = "ok"
    /\ now > fs[PAUSED_AT_FILE]

\* C8: pause(), resume() and stop() complete without raising when the pid
\* marker names a process that has already exited.
C8_SignalErrorsSwallowed ==
    last.op \in {"pause", "resume", "stop"} => last.res # "ProcessLookupError"

\* C9: from every state with is_recording() true, stop() returns and leaves
\* the session Idle with all markers removed.
C9_StopAlwaysClears ==
    (last.op = "stop" /\ last.wasRecording)
        => (/\ last.res \in {"path", "None"}
            /\ \A m \in Markers : ~Exists(fs, m))

\* C10: a start() whose capture process cannot be spawned fails with the
\* recorder's RecordingError and leaves no pid, output-path, start or active
\* marker.
C10_SpawnFailure ==
    (last.op = "start" /\ ~last.wasRecording /\ last.res # "ok")
        => (/\ last.res = "RecordingError"
            /\ ~Exists(fs, PID_FILE)
            /\ ~Exists(fs, FILE_FILE)
            /\ ~Exists(fs, START_FILE)
            /\ ~is_recording(fs))

\* -------------------------------------------------- claims under SpecRace
\* C1: at most one recording is active system-wide: when Recorder instances
\* race in start(), only one of them passes the is_recording check and
\* spawns a capture process, so no two capture processes ever exist at once.
C1_AtMostOneRecording ==
    /\ Cardinality({pid \in Pids : Alive(procs, pid)}) <= 1
    /\ \A r \in Recorders :
          (pc[r] = "idle" /\ loc[r].res = "ok" /\ Alive(procs, loc[r].pid)
           /\ is_recording(fs))
              => fs[PID_FILE] = loc[r].pid

\* C6: whenever is_recording() is true the process-id, output-path and
\* start-instant markers are all present.
C6_NoPartialState ==
    is_recording(fs)
        => (/\ Exists(fs, PID_FILE)
            /\ Exists(fs, FILE_FILE)
            /\ Exists(fs, START_FILE))

\* ======================================================================
\* Part 2: the transcript store (src/src/core/database.py)
\* ======================================================================
\* ------------------------------------------------------------------ bounds
\* Steps of one behaviour of SpecStore that change the database, its
\* connection or the clock (queries come on top).
MaxSteps == 5

\* Paths of audio files, of transcript files and of summary files, the
\* values of duration_seconds a transcript's YAML header can hold, meeting
\* titles and speaker lists.
AudioPaths ==
    {1, 2}
TranscriptPaths ==
    {1, 2}
SummaryPaths ==
    {1}
Durations ==
    {NULL, 1}
Titles ==
    {1}
SpeakerLists ==
    {NULL}

\* ------------------------------------------------------------------ tables
\* The database as one value: both tables and the connection's
\* last-insert rowid.
Db(A, T, rid) ==
    [audio_files |-> A, transcripts |-> T, lastrowid |-> rid]

\* What a call leaves behind: the database and the returned value.
DbResult(d, ret) ==
    [db |-> d, ret |-> ret]

\* id INTEGER PRIMARY KEY: a new row gets the largest id in the table plus
\* one (1 in an empty table).
NextRowId(table) ==
    IF table = {}
    THEN 1
    ELSE LET ids == {r.id : r \in table}
         IN  (CHOOSE i \in ids : \A j \in ids : i >= j) + 1

\* Database._get_conn after Database.close: a fresh connection, whose
\* last-insert rowid is 0.
get_conn(d) ==
    Db(d.audio_files, d.transcripts, 0)

\* ----------------------------------------------------- audio file operations
get_audio_id(d, path) ==
    IF \E a \in d.audio_files : a.path = path
    THEN (CHOOSE a \in d.audio_files : a.path = path).id
    ELSE NULL

\* INSERT OR IGNORE, then cursor.lastrowid if it is non-zero, else the id
\* looked up by path.  After an ignored insert cursor.lastrowid is the rowid
\* of the connection's most recent successful insert, into either table.
add_audio(d, path, t) ==
    LET inserted == ~\E a \in d.audio_files : a.path = path
        id == NextRowId(d.audio_files)
        A1 == IF inserted
              THEN d.audio_files \cup
                     {[id |-> id, path |-> path, added_at |-> t,
                       transcribed_at |-> NULL, transcript_path |-> NULL]}
              ELSE d.audio_files
        rid == IF inserted THEN id ELSE d.lastrowid
        d1 == Db(A1, d.transcripts, rid)
    IN  DbResult(d1,
                 IF rid # 0
                 THEN rid
                 ELSE IF get_audio_id(d1, path) # NULL
                      THEN get_audio_id(d1, path)
                      ELSE 0)

\* Mutant: an UPDATE that inserts the row when the path is unknown.
mark_transcribed_upsert(d, audio_path, transcript_path, t) ==
    LET known == \E a \in d.audio_files : a.path = audio_path
        A0 == IF known
              THEN d.audio_files
              ELSE d.audio_files \cup
                     {[id |-> NextRowId(d.audio_files), path |-> audio_path,
                       added_at |-> t, transcribed_at |-> NULL,
                       transcript_path |-> NULL]}
    IN  DbResult(Db({IF a.path = audio_path
                     THEN [a EXCEPT !.transcribed_at = t,
                                    !.transcript_path = transcript_path]
                     ELSE a : a \in A0},
                    d.transcripts, d.lastrowid),
                 NULL)

mark_transcribed(d, audio_path, transcript_path, t) ==
    DbResult(Db({IF a.path = audio_path
                 THEN [a EXCEPT !.transcribed_at = t,
                                !.transcript_path = transcript_path]
                 ELSE a : a \in d.audio_files},
                d.transcripts, d.lastrowid),
             NULL)

audio_exists(d, path) ==
    get_audio_id(d, path) # NULL

\* DELETE FROM audio_files WHERE path = ?: foreign keys are not enforced on
\* the connection, so transcripts linked to the row keep their audio_file_id.
delete_audio(d, path) ==
    DbResult(Db({a \in d.audio_files : a.path # path},
                d.transcripts, d.lastrowid),
             NULL)

\* ----------------------------------------------------- transcript operations
\* duration is what _read_duration_from_yaml finds in the file at path.
add_transcript(d, path, audio_file_id, duration, t) ==
    LET inserted == ~\E x \in d.transcripts : x.path = path
        id == NextRowId(d.transcripts)
        T1 == IF inserted
              THEN d.transcripts \cup
                     {[id |-> id, path |-> path,
                       audio_file_id |-> audio_file_id, created_at |-> t,
                       labeled_at |-> NULL, summarized_at |-> NULL,
                       summary_path |-> NULL, meeting_title |-> NULL,
                       speakers |-> NULL, duration_seconds |-> duration]}
              ELSE d.transcripts
        rid == IF inserted THEN id ELSE d.lastrowid
    IN  DbResult(Db(d.audio_files, T1, rid),
                 IF rid # 0
                 THEN rid
                 ELSE IF \E x \in T1 : x.path = path
                      THEN (CHOOSE x \in T1 : x.path = path).id
                      ELSE 0)

\* Mutant: labeling a transcript again takes its summary back.
mark_labeled_unsummarizes(d, transcript_path, speakers, t) ==
    DbResult(Db(d.audio_files,
                {IF x.path = transcript_path
                 THEN [x EXCEPT !.labeled_at = t, !.summarized_at = NULL]
                 ELSE x : x \in d.transcripts},
                d.lastrowid),
             NULL)

\* "if speakers:" chooses between the two UPDATE statements.
mark_labeled(d, transcript_path, speakers, t) ==
    DbResult(Db(d.audio_files,
                {IF x.path = transcript_path
                 THEN IF speakers # NULL
                      THEN [x EXCEPT !.labeled_at = t, !.speakers = speakers]
                      ELSE [x EXCEPT !.labeled_at = t]
                 ELSE x : x \in d.transcripts},
                d.lastrowid),
             NULL)

mark_summarized(d, transcript_path, summary_path, t) ==
    DbResult(Db(d.audio_files,
                {IF x.path = transcript_path
                 THEN [x EXCEPT !.summarized_at = t,
                                !.summary_path = summary_path]
                 ELSE x : x \in d.transcripts},
                d.lastrowid),
             NULL)

update_meeting_title(d, transcript_path, title) ==
    DbResult(Db(d.audio_files,
                {IF x.path = transcript_path
                 THEN [x EXCEPT !.meeting_title = title]
                 ELSE x : x \in d.transcripts},
                d.lastrowid),
             NULL)

get_summary_path(d, transcript_path) ==
    IF \E x \in d.transcripts : x.path = transcript_path
    THEN (CHOOSE x \in d.transcripts : x.path = transcript_path).summary_path
    ELSE NULL

delete_transcript(d, path) ==
    DbResult(Db(d.audio_files,
                {x \in d.transcripts : x.path # path},
                d.lastrowid),
             NULL)

\* ------------------------------------------------------------ count queries
\* SELECT COUNT(*) over the rows of a table: one is added for every row the
\* WHERE clause keeps.
RECURSIVE CountRows(_, _, _)
CountRows(table, Where(_), count) ==
    IF table = {}
    THEN count
    ELSE LET row == CHOOSE r \in table : TRUE
         IN  CountRows(table \ {row}, Where,
                       IF Where(row) THEN count + 1 ELSE count)

\* WHERE transcribed_at IS NULL
get_pending_count(d) ==
    LET Where(a) == a.transcribed_at = NULL
    IN  CountRows(d.audio_files, Where, 0)

\* WHERE labeled_at IS NULL
get_unlabeled_count(d) ==
    LET Where(x) == x.labeled_at = NULL
    IN  CountRows(d.transcripts, Where, 0)

\* Mutant: every transcript without a summary is counted.
get_unsummarized_count_unlabeled_too(d) ==
    LET Where(x) == x.summarized_at = NULL
    IN  CountRows(d.transcripts, Where, 0)

\* WHERE labeled_at IS NOT NULL AND summarized_at IS NULL
get_unsummarized_count(d) ==
    LET Where(x) == x.labeled_at # NULL /\ x.summarized_at = NULL
    IN  CountRows(d.transcripts, Where, 0)

\* ------------------------------------------------------------ list_unified
\* The t columns of an audio row that no transcript matches: all NULL.
NoTranscript ==
    [id |-> NULL, path |-> NULL, audio_file_id |-> NULL, created_at |-> NULL,
     labeled_at |-> NULL, summarized_at |-> NULL, summary_path |-> NULL,
     meeting_title |-> NULL, speakers |-> NULL, duration_seconds |-> NULL]

\* One row of the SELECT: the columns of audio row a and transcript row x.
JoinRow(a, x) ==
    [audio_id |-> a.id, audio_path |-> a.path, added_at |-> a.added_at,
     transcribed_at |-> a.transcribed_at,
     transcript_id |-> x.id, transcript_path |-> x.path,
     created_at |-> x.created_at, labeled_at |-> x.labeled_at,
     summarized_at |-> x.summarized_at, meeting_title |-> x.meeting_title,
     speakers |-> x.speakers, duration_seconds |-> x.duration_seconds]

\* FROM audio_files a LEFT JOIN transcripts t ON a.id = t.audio_file_id:
\* one row for every matching pair, and one for every audio row without a
\* match.
LeftJoin(d) ==
    UNION {LET matches == {x \in d.transcripts : x.audio_file_id = a.id}
           IN  IF matches = {}
               THEN {JoinRow(a, NoTranscript)}
               ELSE {JoinRow(a, x) : x \in matches}
           : a \in d.audio_files}

\* Mutant: the rows are ordered by the audio file's added_at alone.
OrderKeyAddedAt(row) ==
    row.added_at

\* COALESCE(t.summarized_at, t.labeled_at, a.transcribed_at, a.added_at)
OrderKey(row) ==
    IF row.summarized_at # NULL THEN row.summarized_at
    ELSE IF row.labeled_at # NULL THEN row.labeled_at
    ELSE IF row.transcribed_at # NULL THEN row.transcribed_at
    ELSE row.added_at

\* ORDER BY ... DESC: rows with equal keys come in an order SQL leaves open.
RECURSIVE OrderByDesc(_)
OrderByDesc(rows) ==
    IF rows = {}
    THEN << >>
    ELSE LET first == CHOOSE r \in rows :
                          \A q \in rows : OrderKey(r) >= OrderKey(q)
         IN  << first >> \o OrderByDesc(rows \ {first})

\* Mutant: labeled_at is tested before summarized_at.
stage_labeled_first(row) ==
    IF row.labeled_at # NULL THEN "labeled"
    ELSE IF row.summarized_at # NULL THEN "summarized"
    ELSE IF row.transcript_path # NULL THEN "unlabeled"
    ELSE IF row.transcribed_at # NULL THEN "transcribed"
    ELSE "to transcribe"

\* The if/elif chain of list_unified.
stage(row) ==
    IF row.summarized_at # NULL THEN "summarized"
    ELSE IF row.labeled_at # NULL THEN "labeled"
    ELSE IF row.transcript_path # NULL THEN "unlabeled"
    ELSE IF row.transcribed_at # NULL THEN "transcribed"
    ELSE "to transcribe"

\* The rows the SELECT returns, in order.
unified_rows(d) ==
    OrderByDesc(LeftJoin(d))

\* The returned list of dicts, one per row of the SELECT (keys date, name
\* and audio_filename, which only reformat columns, are left out).
list_unified(d) ==
    LET rows == unified_rows(d)
    IN  [i \in 1..Len(rows) |->
            [type |-> IF rows[i].transcript_path = NULL
                      THEN "audio" ELSE "transcript",
             audio_path |-> rows[i].audio_path,
             transcript_path |-> rows[i].transcript_path,
             stage |-> stage(rows[i]),
             speakers |-> rows[i].speakers,
             duration_seconds |-> rows[i].duration_seconds,
             meeting_title |-> rows[i].meeting_title]]

\* ---------------------------------------------------------- store actions
TheDb ==
    Db(audio_files, transcripts, lastrowid)

KnownAudio(path) ==
    \E a \in audio_files : a.path = path

KnownTranscript(path) ==
    \E x \in transcripts : x.path = path

\* One more step that changes the database, its connection or the clock.
Counted ==
    /\ steps < MaxSteps
    /\ steps' = steps + 1

\* The call op(path) ends with result r: the database and the history take
\* their new values, the recorder's state is untouched.
Returned(op, path, known, r) ==
    /\ audio_files' = r.db.audio_files
    /\ transcripts' = r.db.transcripts
    /\ lastrowid' = r.db.lastrowid
    /\ dbres' = [op |-> op, path |-> path, ret |-> r.ret, known |-> known]
    /\ UNCHANGED << fs, procs, now, recorded, last, pc, loc, docVars,
                    flowVars, pollVars, deleteVars >>

\* The clock that CURRENT_TIMESTAMP reads advances by a second.
StoreTick ==
    /\ Counted
    /\ now' = now + 1
    /\ UNCHANGED << fs, procs, recorded, last, pc, loc,
                    audio_files, transcripts, lastrowid, dbres, docVars,
                    flowVars, pollVars, deleteVars >>

\* Database.close followed by the next _get_conn (the application restarts).
Reconnect ==
    /\ Counted
    /\ Returned("connect", NULL, FALSE, DbResult(get_conn(TheDb), NULL))

AddAudio ==
    \E path \in AudioPaths :
        /\ Counted
        /\ Returned("add_audio", path, KnownAudio(path),
                    add_audio(TheDb, path, now))

MarkTranscribed ==
    \E path \in AudioPaths, transcript_path \in TranscriptPaths :
        /\ Counted
        /\ Returned("mark_transcribed", path, KnownAudio(path),
                    mark_transcribed(TheDb, path, transcript_path, now))

DeleteAudio ==
    \E path \in AudioPaths :
        /\ Counted
        /\ Returned("delete_audio", path, KnownAudio(path),
                    delete_audio(TheDb, path))

\* audio_file_id is None or the id of an audio record (what get_audio_id
\* gave the caller).
AddTranscript ==
    \E path \in TranscriptPaths, duration \in Durations,
       audio_file_id \in {NULL} \cup {a.id : a \in audio_files} :
        /\ Counted
        /\ Returned("add_transcript", path, KnownTranscript(path),
                    add_transcript(TheDb, path, audio_file_id, duration, now))

MarkLabeled ==
    \E path \in TranscriptPaths, speakers \in SpeakerLists :
        /\ Counted
        /\ Returned("mark_labeled", path, KnownTranscript(path),
                    mark_labeled(TheDb, path, speakers, now))

MarkSummarized ==
    \E path \in TranscriptPaths, summary_path \in SummaryPaths :
        /\ Counted
        /\ Returned("mark_summarized", path, KnownTranscript(path),
                    mark_summarized(TheDb, path, summary_path, now))

UpdateMeetingTitle ==
    \E path \in TranscriptPaths, title \in Titles :
        /\ Counted
        /\ Returned("update_meeting_title", path, KnownTranscript(path),
                    update_meeting_title(TheDb, path, title))

GetSummaryPath ==
    \E path \in TranscriptPaths :
        /\ UNCHANGED steps
        /\ Returned("get_summary_path", path, KnownTranscript(path),
                    DbResult(TheDb, get_summary_path(TheDb, path)))

DeleteTranscript ==
    \E path \in TranscriptPaths :
        /\ Counted
        /\ Returned("delete_transcript", path, KnownTranscript(path),
                    delete_transcript(TheDb, path))

\* list_unified reads only; the listing it returns is list_unified(TheDb).
ListUnified ==
    /\ UNCHANGED steps
    /\ Returned("list_unified", NULL, FALSE,
                DbResult(TheDb, Len(list_unified(TheDb))))

\* The three count queries read only.
GetCount ==
    /\ UNCHANGED steps
    /\ \/ Returned("get_pending_count", NULL, FALSE,
                    DbResult(TheDb, get_pending_count(TheDb)))
       \/ Returned("get_unlabeled_count", NULL, FALSE,
                    DbResult(TheDb, get_unlabeled_count(TheDb)))
       \/ Returned("get_unsummarized_count", NULL, FALSE,
                    DbResult(TheDb, get_unsummarized_count(TheDb)))

NextStore ==
    \/ StoreTick
    \/ Reconnect
    \/ AddAudio
    \/ MarkTranscribed
    \/ DeleteAudio
    \/ AddTranscript
    \/ MarkLabeled
    \/ MarkSummarized
    \/ UpdateMeetingTitle
    \/ GetSummaryPath
    \/ DeleteTranscript
    \/ ListUnified
    \/ GetCount

SpecStore ==
    Init /\ [][NextStore]_vars

\* ------------------------------------------------- claims under SpecStore
\* C14: the stage of every list_unified() row is a function of the row's
\* fields alone, by the strict priority summarized_at > labeled_at >
\* transcript path > transcribed_at > "to transcribe": a row whose
\* summarized_at is set is "summarized" whatever its other timestamps are
\* and in whatever order the marking calls were made.
C14_StagePriority ==
    LET rows == unified_rows(TheDb)
        listing == list_unified(TheDb)
    IN  \A i \in 1..Len(listing) :
            LET row == rows[i]
                s == listing[i].stage
            IN  /\ row.summarized_at # NULL => s = "summarized"
                /\ (row.summarized_at = NULL /\ row.labeled_at # NULL)
                      => s = "labeled"
                /\ (row.summarized_at = NULL /\ row.labeled_at = NULL
                    /\ row.transcript_path # NULL)
                      => s = "unlabeled"
                /\ (row.transcript_path = NULL /\ row.transcribed_at # NULL)
                      => s = "transcribed"
                /\ (row.transcript_path = NULL /\ row.transcribed_at = NULL)
                      => s = "to transcribe"

\* list_unified has just returned a "summarized" row of a transcript that
\* was labeled after it was summarized and whose audio file was never marked
\* transcribed.
C14_Witness ==
    /\ dbres.op = "list_unified"
    /\ \E i \in 1..Len(list_unified(TheDb)) :
          /\ list_unified(TheDb)[i].stage = "summarized"
          /\ unified_rows(TheDb)[i].labeled_at > unified_rows(TheDb)[i].summarized_at
          /\ unified_rows(TheDb)[i].transcribed_at = NULL

\* C15: add_audio is idempotent: whatever other inserts and deletes came
\* between two add_audio(p) calls, the call returns the id of the record
\* whose path is p, and audio_exists(p) is true after it.
C15_AddAudioIdempotent ==
    dbres.op = "add_audio"
        => (/\ audio_exists(TheDb, dbres.path)
            /\ dbres.ret = get_audio_id(TheDb, dbres.path))

\* C16: add_transcript is idempotent on path: a call for a path that is
\* already stored returns the id of the existing record for that path,
\* whatever other inserts happened in between.
C16_AddTranscriptIdempotent ==
    dbres.op = "add_transcript"
        => \E x \in transcripts : x.path = dbres.path /\ x.id = dbres.ret

\* C17: mark_transcribed, mark_labeled, mark_summarized,
\* update_meeting_title, delete_audio and delete_transcript called with a
\* path that is not stored return normally, create no record and leave every
\* record of both tables as it was; get_summary_path of an unknown path
\* returns None.
C17_UnknownPathNoOp ==
    /\ [][((\/ MarkTranscribed
            \/ MarkLabeled
            \/ MarkSummarized
            \/ UpdateMeetingTitle
            \/ DeleteAudio
            \/ DeleteTranscript) /\ ~dbres'.known)
              => (/\ audio_files' = audio_files
                  /\ transcripts' = transcripts
                  /\ dbres'.ret = NULL)]_vars
    /\ []((dbres.op = "get_summary_path" /\ ~dbres.known)
              => dbres.ret = NULL)

\* mark_transcribed has just been called with an unknown audio path while
\* both tables hold records.
C17_Witness ==
    /\ dbres.op = "mark_transcribed"
    /\ ~dbres.known
    /\ audio_files # {}
    /\ transcripts # {}

\* C18: list_unified() is an outer join: every transcript record without a
\* linked audio record (added with audio_id None, or whose audio record was
\* deleted) appears as a row of the listing.
C18_OrphansListed ==
    dbres.op = "list_unified"
        => \A x \in transcripts :
              (\A a \in audio_files : a.id # x.audio_file_id)
                 => \E i \in 1..Len(list_unified(TheDb)) :
                       list_unified(TheDb)[i].transcript_path = x.path

\* C19: list_unified() contains exactly one row per audio record, also when
\* several transcript records link to the same audio record.
C19_OneRowPerAudio ==
    dbres.op = "list_unified"
        => \A a \in audio_files :
              Cardinality({i \in 1..Len(list_unified(TheDb)) :
                              list_unified(TheDb)[i].audio_path = a.path}) = 1

\* C20: the rows of list_unified() are in descending order of their
\* most-recent-activity key, the first non-null of summarized_at, labeled_at,
\* transcribed_at and added_at: the key of every row is >= the key of the
\* row after it.
C20_OrderedByActivity ==
    LET rows == unified_rows(TheDb)
        listing == list_unified(TheDb)
        Key(r) == IF r.summarized_at # NULL THEN r.summarized_at
                  ELSE IF r.labeled_at # NULL THEN r.labeled_at
                  ELSE IF r.transcribed_at # NULL THEN r.transcribed_at
                  ELSE r.added_at
    IN  /\ Len(listing) = Len(rows)
        /\ \A i \in 1..Len(rows) :
              /\ listing[i].audio_path = rows[i].audio_path
              /\ listing[i].transcript_path = rows[i].transcript_path
        /\ \A i \in 1..(Len(rows) - 1) : Key(rows[i]) >= Key(rows[i + 1])

\* list_unified has just returned an audio-only row added at T1 ahead of a
\* summarized row whose summarized_at is T0 < T1.
C20_Witness ==
    /\ dbres.op = "list_unified"
    /\ \E i, j \in 1..Len(list_unified(TheDb)) :
          /\ i < j
          /\ list_unified(TheDb)[i].stage = "to transcribe"
          /\ list_unified(TheDb)[j].stage = "summarized"
          /\ unified_rows(TheDb)[j].summarized_at < unified_rows(TheDb)[i].added_at

\* C31: the count queries are live predicate counts: get_pending_count() is
\* the number of audio records without transcribed_at, get_unlabeled_count()
\* the number of transcript records without labeled_at and
\* get_unsummarized_count() the number of transcript records with labeled_at
\* set and summarized_at unset, in every state and in every answer given; a
\* transcript that mark_labeled has marked is no longer counted as unlabeled
\* and is counted as unsummarized until it has a summarized_at, and one that
\* mark_summarized has marked is not counted as unsummarized.
C31_LiveCounts ==
    LET pending == Cardinality({a \in audio_files : a.transcribed_at = NULL})
        unlabeled == Cardinality({x \in transcripts : x.labeled_at = NULL})
        unsummarized ==
            Cardinality({x \in transcripts : /\ x.labeled_at # NULL
                                              /\ x.summarized_at = NULL})
        Only(path) == Db({}, {x \in transcripts : x.path = path}, 0)
    IN  /\ get_pending_count(TheDb) = pending
        /\ get_unlabeled_count(TheDb) = unlabeled
        /\ get_unsummarized_count(TheDb) = unsummarized
        /\ dbres.op = "get_pending_count" => dbres.ret = pending
        /\ dbres.op = "get_unlabeled_count" => dbres.ret = unlabeled
        /\ dbres.op = "get_unsummarized_count" => dbres.ret = unsummarized
        /\ dbres.op = "mark_labeled" /\ dbres.known =>
              /\ get_unlabeled_count(Only(dbres.path)) = 0
              /\ \A x \in transcripts :
                     x.path = dbres.path =>
                         (get_unsummarized_count(Only(dbres.path)) = 1
                            <=> x.summarized_at = NULL)
        /\ dbres.op = "mark_summarized" /\ dbres.known =>
              get_unsummarized_count(Only(dbres.path)) = 0

\* The unsummarized count is asked while a transcript is unlabeled, another
\* is labeled and not summarized.
C31_Witness ==
    /\ dbres.op = "get_unsummarized_count"
    /\ dbres.ret = 1
    /\ \E x \in transcripts : x.labeled_at = NULL

\* The paths of the audio records that transcript record x is joined to by
\* ON a.id = t.audio_file_id.
JoinedAudio(A, x) ==
    {a.path : a \in {r \in A : r.id = x.audio_file_id}}

\* C36: after any sequence of add_audio, add_transcript, delete_audio and
\* delete_transcript, a transcript is shown joined to the audio record it was
\* created for only: no step attaches a transcript record that stays in the
\* table to an audio record it was not joined to before the step.
C36_LinkIntegrity ==
    [][\A x \in transcripts, y \in transcripts' :
           x.path = y.path =>
               JoinedAudio(audio_files', y) \subseteq JoinedAudio(audio_files, x)
      ]_vars

\* The position of a stage in the order of the workflow.
StageRank(s) ==
    CASE s = "to transcribe" -> 0
      [] s = "transcribed" -> 1
      [] s = "unlabeled" -> 2
      [] s = "labeled" -> 3
      [] s = "summarized" -> 4

\* Row q shows the item that row r showed: the same audio file, and the same
\* transcript when r had one.
SameItem(r, q) ==
    /\ r.audio_path = q.audio_path
    /\ r.transcript_path = NULL \/ r.transcript_path = q.transcript_path

\* C39: a step of add_audio, mark_transcribed, add_transcript, mark_labeled,
\* mark_summarized or update_meeting_title (no delete) keeps every listed
\* item in the list and never moves its stage backward in the order
\* to transcribe < transcribed < unlabeled < labeled < summarized.
C39_StageNeverBackward ==
    [][dbres'.op \notin {"delete_audio", "delete_transcript"} =>
          \A r \in LeftJoin(TheDb) :
              /\ \E q \in LeftJoin(TheDb') : SameItem(r, q)
              /\ \A q \in LeftJoin(TheDb') :
                     SameItem(r, q) => StageRank(stage(q)) >= StageRank(stage(r))
      ]_vars

\* A summarized transcript has been labeled again and is still summarized.
C39_Witness ==
    /\ dbres.op = "mark_labeled"
    /\ dbres.known
    /\ \E r \in LeftJoin(TheDb) :
          /\ r.transcript_path = dbres.path
          /\ stage(r) = "summarized"

\* ======================================================================
\* Part 3: the transcript document (src/src/models.py) and the labeling
\* and rename logic of the unified screen (src/src/screens/unified.py).
\*   SpecDoc   one TranscriptData in memory, as convert_to_transcript_data
\*             builds it, with its summary file: the document methods and
\*             the save-labels handler applied one after the other;
\*   SpecYaml  a TranscriptData and its transcript file: to_yaml/save and
\*             from_yaml/load, and edits of the file made outside the
\*             program.
\* ======================================================================

\* ------------------------------------------------------------------ bounds
\* Utterances of a transcript in SpecDoc, and in SpecYaml.
MaxDocUtts == 2
MaxUtts == 3
\* Document operations applied in one behaviour of SpecDoc.
MaxDocSteps == 4
\* Largest num_samples and offset passed to get_speaker_samples.
MaxSamples == 2

\* ------------------------------------------------------------- input sets
\* Speaker labels given by the transcription service, in sorted order.
SpeakerIds == << <<"A">>, <<"B">> >>

\* Names typed into the speaker input: one that is another speaker's
\* identifier, and two that begin with an identifier.
TypedNames == { <<"B">>, <<"B", "o", "b">>, <<"A", "l">> }

\* The text of the i-th utterance (texts are told apart by position).
TextOf(i) == << <<"x">>, <<"y">>, <<"z">>, <<"w">> >>[i]

\* Summary texts: prose that mentions speakers by identifier or by name.
SummaryTexts ==
    { <<"A", " ", "B">>,
      <<"A", "l", " ", "A">>,
      <<"B", "o", "b", " ", "A", "l">> }

\* ------------------------------------------------------- document methods
Range(s) == {s[i] : i \in 1..Len(s)}

\* Python truthiness of an optional str.
Truthy(name) == name # None

Speaker(id, name) == [id |-> id, name |-> name]

Utterance(speaker, t0, t1, text) ==
    [speaker |-> speaker, start |-> t0, end |-> t1, text |-> text]

RECURSIVE SelectTexts(_, _)
\* The texts of the utterances of utts spoken by speaker_id, in order.
SelectTexts(utts, speaker_id) ==
    IF utts = << >> THEN << >>
    ELSE (IF Head(utts).speaker = speaker_id
          THEN << Head(utts).text >> ELSE << >>)
         \o SelectTexts(Tail(utts), speaker_id)

\* get_speaker_samples(speaker_id, num_samples): the loop appends matching
\* texts and breaks once num_samples are collected (the test follows the
\* append, so the first match is always taken).
get_speaker_samples(d, speaker_id, num_samples) ==
    LET matches == SelectTexts(d.utterances, speaker_id)
        n == IF num_samples < 1 THEN 1 ELSE num_samples
    IN  IF Len(matches) <= n THEN matches ELSE SubSeq(matches, 1, n)

\* get_speaker_by_id: the index of the first speaker with that id, 0 if none.
get_speaker_by_id(d, speaker_id) ==
    IF \E i \in 1..Len(d.speakers) : d.speakers[i].id = speaker_id
    THEN CHOOSE i \in 1..Len(d.speakers) :
            /\ d.speakers[i].id = speaker_id
            /\ \A j \in 1..(i - 1) : d.speakers[j].id # speaker_id
    ELSE 0

set_speaker_name(d, speaker_id, name) ==
    LET i == get_speaker_by_id(d, speaker_id)
    IN  IF i = 0 THEN d
        ELSE [d EXCEPT !.speakers[i].name = name]

\* id_to_name of replace_speaker_ids_with_names: a dict comprehension, the
\* last speaker with an id wins.
IdToName(d, id) ==
    LET named == {i \in 1..Len(d.speakers) :
                     d.speakers[i].id = id /\ Truthy(d.speakers[i].name)}
    IN  IF named = {} THEN None
        ELSE d.speakers[CHOOSE i \in named : \A j \in named : j <= i].name

replace_chained(d) ==
    [d EXCEPT !.utterances =
        [i \in 1..Len(d.utterances) |->
            LET once == IF Truthy(IdToName(d, d.utterances[i].speaker))
                        THEN IdToName(d, d.utterances[i].speaker)
                        ELSE d.utterances[i].speaker
            IN  [d.utterances[i] EXCEPT !.speaker =
                    IF Truthy(IdToName(d, once))
                    THEN IdToName(d, once) ELSE once]]]

replace_speaker_ids_with_names(d) ==
    [d EXCEPT !.utterances =
        [i \in 1..Len(d.utterances) |->
            IF Truthy(IdToName(d, d.utterances[i].speaker))
            THEN [d.utterances[i] EXCEPT
                    !.speaker = IdToName(d, d.utterances[i].speaker)]
            ELSE d.utterances[i]]]

mark_labeled_doc(d) == [d EXCEPT !.labeled = TRUE]

RECURSIVE get_participants(_)
get_participants(d) ==
    IF d.speakers = << >> THEN << >>
    ELSE (IF Truthy(Head(d.speakers).name)
          THEN << Head(d.speakers).name >> ELSE << >>)
         \o get_participants([d EXCEPT !.speakers = Tail(d.speakers)])

\* ------------------------------------------------ unified screen: renames
\* A dict, in insertion order: a sequence of << key, value >> pairs with
\* distinct keys.
HasKey(m, k) == \E i \in 1..Len(m) : m[i][1] = k

\* m[k] = v: a present key keeps its position and takes the new value.
Put(m, k, v) ==
    IF HasKey(m, k)
    THEN [i \in 1..Len(m) |-> IF m[i][1] = k THEN << k, v >> ELSE m[i]]
    ELSE Append(m, << k, v >>)

\* The speaker values of the utterances (old_speakers_in_utts).
UttSpeakers(d) == {d.utterances[i].speaker : i \in 1..Len(d.utterances)}

\* The orders in which a set can be iterated.
Orders(S) ==
    {ord \in [1..Cardinality(S) -> S] : \A x \in S : \E i \in DOMAIN ord : ord[i] = x}

RECURSIVE OldNameEntries(_, _, _, _)
\* The inner loop of _build_speaker_rename_map for one speaker: old_name
\* runs over the utterance speaker values in the order ord from position j.
OldNameEntries(d, sp, ord, j) ==
    IF j > Len(ord) THEN << >>
    ELSE (IF /\ ord[j] # sp.id
             /\ ~Truthy(IdToName(d, ord[j]))
             /\ sp.id \notin UttSpeakers(d)
             /\ ord[j] # sp.name
          THEN << << ord[j], sp.name >> >> ELSE << >>)
         \o OldNameEntries(d, sp, ord, j + 1)

RECURSIVE PutAll(_, _)
PutAll(m, entries) ==
    IF entries = << >> THEN m
    ELSE PutAll(Put(m, Head(entries)[1], Head(entries)[2]), Tail(entries))

IdEntryAlways(d, sp) ==
    sp.id \in UttSpeakers(d)

\* The test under which a speaker's identifier is recorded as renamed.
IdEntry(d, sp) ==
    sp.id \in UttSpeakers(d) /\ sp.name # sp.id

RECURSIVE RenameMapFrom(_, _, _, _)
\* The outer loop of _build_speaker_rename_map from speaker i on, rename_map
\* being m so far.
RenameMapFrom(d, ord, i, m) ==
    IF i > Len(d.speakers) THEN m
    ELSE LET sp == d.speakers[i]
             m1 == IF IdEntry(d, sp)
                   THEN Put(m, sp.id, sp.name) ELSE m
         IN  IF ~Truthy(sp.name)
             THEN RenameMapFrom(d, ord, i + 1, m)
             ELSE RenameMapFrom(d, ord, i + 1,
                                PutAll(m1, OldNameEntries(d, sp, ord, 1)))

\* _build_speaker_rename_map(), the set old_speakers_in_utts being iterated
\* in the order ord.
build_speaker_rename_map(d, ord) ==
    RenameMapFrom(d, ord, 1, << >>)

\* \w of the regular expression: every character of the alphabet but the
\* blank.
WordChar(ch) == ch # " "

\* \b at the gap before position i of c.
Boundary(c, i) ==
    LET before == i > 1 /\ i - 1 <= Len(c) /\ WordChar(c[i - 1])
        after == i >= 1 /\ i <= Len(c) /\ WordChar(c[i])
    IN  before # after

\* The pattern \b old \b matches c at position i.
MatchAt(c, i, old) ==
    /\ i + Len(old) - 1 <= Len(c)
    /\ SubSeq(c, i, i + Len(old) - 1) = old
    /\ Boundary(c, i)
    /\ Boundary(c, i + Len(old))

RECURSIVE ReSubFrom(_, _, _, _)
\* re.sub from position i on: leftmost matches, not overlapping.
ReSubFrom(c, i, old, new) ==
    IF i > Len(c) THEN << >>
    ELSE IF MatchAt(c, i, old)
         THEN new \o ReSubFrom(c, i + Len(old), old, new)
         ELSE << c[i] >> \o ReSubFrom(c, i + 1, old, new)

\* re.sub(rf"\b{re.escape(old)}\b", new, content)
ReSub(content, old, new) == ReSubFrom(content, 1, old, new)

RECURSIVE update_summary(_, _)
\* The loop of _update_summary_file: one re.sub per entry, each applied to
\* the result of the one before.
update_summary(content, rename_map) ==
    IF rename_map = << >> THEN content
    ELSE update_summary(ReSub(content, Head(rename_map)[1], Head(rename_map)[2]),
                        Tail(rename_map))

RECURSIVE rename_utterances(_, _)
\* The relabeling loop of action_save_labels: for each entry in turn, every
\* utterance whose speaker is the old name takes the new one.
rename_utterances(d, rename_map) ==
    IF rename_map = << >> THEN d
    ELSE rename_utterances(
            [d EXCEPT !.utterances =
                [i \in 1..Len(d.utterances) |->
                    IF d.utterances[i].speaker = Head(rename_map)[1]
                    THEN [d.utterances[i] EXCEPT !.speaker = Head(rename_map)[2]]
                    ELSE d.utterances[i]]],
            Tail(rename_map))

\* all(s.name for s in speakers)
all_labeled(d) == \A i \in 1..Len(d.speakers) : Truthy(d.speakers[i].name)

\* -------------------------------------------------- the transcript file
DQ == "\""
BS == "\\"

Digit(k) == << "0", "1", "2", "3", "4", "5", "6", "7", "8", "9" >>[k + 1]

DigitValue(ch) == CHOOSE k \in 0..9 : Digit(k) = ch

RECURSIVE IntStr(_)
\* str(n) of an int n >= 0.
IntStr(n) ==
    IF n < 10 THEN << Digit(n) >>
    ELSE IntStr(n \div 10) \o << Digit(n % 10) >>

\* str(x) of a float given in tenths of a second: "1.5", "2.0".
FloatStr(tenths) ==
    IntStr(tenths \div 10) \o << "." >> \o IntStr(tenths % 10)

BoolStr(b) ==
    IF b THEN << "t", "r", "u", "e" >> ELSE << "f", "a", "l", "s", "e" >>

NullStr == << "n", "u", "l", "l" >>

RECURSIVE EscapeQuotes(_)
\* text.replace('"', '\\"')
EscapeQuotes(text) ==
    IF text = << >> THEN << >>
    ELSE (IF Head(text) = DQ THEN << BS, DQ >> ELSE << Head(text) >>)
         \o EscapeQuotes(Tail(text))

\* f'"{s}"'
Quoted(s) == << DQ >> \o s \o << DQ >>

\* The keys of the two sections.
FrontKeys ==
    {"source_file", "transcribed", "duration_seconds", "labeled", "speakers"}

BodyKeys == {"utterances"}

\* One YAML document of the file, every scalar as it is written.
Section(keys, duration_seconds, labeled, speakers, utterances) ==
    [keys |-> keys, duration_seconds |-> duration_seconds,
     labeled |-> labeled, speakers |-> speakers, utterances |-> utterances]

\* to_yaml(): "---", the front matter, "---", the utterances.  Only the
\* utterance text is escaped, and only its double quotes.
to_yaml(d) ==
    << Section(FrontKeys, IntStr(d.duration_seconds), BoolStr(d.labeled),
               [i \in 1..Len(d.speakers) |->
                   [id |-> Quoted(d.speakers[i].id),
                    name |-> IF Truthy(d.speakers[i].name)
                             THEN Quoted(d.speakers[i].name)
                             ELSE NullStr]],
               << >>),
       Section(BodyKeys, << >>, << >>, << >>,
               [i \in 1..Len(d.utterances) |->
                   [speaker |-> Quoted(d.utterances[i].speaker),
                    start |-> FloatStr(d.utterances[i].start),
                    end |-> FloatStr(d.utterances[i].end),
                    text |-> Quoted(EscapeQuotes(d.utterances[i].text))]]) >>

\* The escape sequences of a YAML double-quoted scalar over the alphabet:
\* \" and \\ stand for themselves, \a is the bell and \b the backspace
\* character; a backslash before any other character is a scanner error.
Escapes == {DQ, BS, "a", "b"}

EscapeValue(ch) ==
    IF ch = "a" THEN "BEL" ELSE IF ch = "b" THEN "BSP" ELSE ch

Parsed(ok, val) == [ok |-> ok, val |-> val]

RECURSIVE Unquote(_, _)
\* The scanner inside a double-quoted scalar r, at position i: the scalar
\* ends at the first quote that is not escaped, and nothing may follow it.
Unquote(r, i) ==
    IF i > Len(r) THEN Parsed(FALSE, << >>)
    ELSE IF r[i] = DQ THEN Parsed(i = Len(r), << >>)
    ELSE IF r[i] = BS
         THEN IF i + 1 <= Len(r) /\ r[i + 1] \in Escapes
              THEN Parsed(Unquote(r, i + 2).ok,
                          << EscapeValue(r[i + 1]) >> \o Unquote(r, i + 2).val)
              ELSE Parsed(FALSE, << >>)
         ELSE Parsed(Unquote(r, i + 1).ok, << r[i] >> \o Unquote(r, i + 1).val)

\* A scalar written in double quotes, as yaml.safe_load reads it.
ParseQuoted(r) ==
    IF r # << >> /\ Head(r) = DQ THEN Unquote(r, 2) ELSE Parsed(FALSE, << >>)

\* A name is null or a double-quoted scalar.
ParseName(r) ==
    IF r = NullStr THEN Parsed(TRUE, None) ELSE ParseQuoted(r)

RECURSIVE StrInt(_)
\* The value of a string of digits.
StrInt(r) ==
    IF r = << >> THEN 0
    ELSE 10 * StrInt(SubSeq(r, 1, Len(r) - 1)) + DigitValue(r[Len(r)])

\* A float "i.f" with one digit after the point, in tenths.
ParseFloat(r) ==
    LET dot == CHOOSE i \in 1..Len(r) : r[i] = "."
    IN  10 * StrInt(SubSeq(r, 1, dot - 1)) + StrInt(SubSeq(r, dot + 1, Len(r)))

\* Every quoted scalar of a section can be scanned.
Scans(sec) ==
    /\ \A i \in 1..Len(sec.speakers) :
          ParseQuoted(sec.speakers[i].id).ok /\ ParseName(sec.speakers[i].name).ok
    /\ \A i \in 1..Len(sec.utterances) :
          ParseQuoted(sec.utterances[i].speaker).ok
             /\ ParseQuoted(sec.utterances[i].text).ok

Loaded(raised, d) == [raised |-> raised, doc |-> d]

\* from_yaml(content): every document of the stream is parsed, fewer than
\* two is a ValueError, the first two are used and any further one ignored.
from_yaml(content) ==
    IF \E i \in 1..Len(content) : ~Scans(content[i])
    THEN Loaded("ScannerError", NoDoc)
    ELSE IF Len(content) < 2 THEN Loaded("ValueError", NoDoc)
    ELSE IF ~({"source_file", "transcribed", "duration_seconds"}
                 \subseteq content[1].keys)
    THEN Loaded("KeyError", NoDoc)
    ELSE IF \/ "speakers" \in content[1].keys /\ content[1].speakers = << >>
            \/ "utterances" \in content[2].keys /\ content[2].utterances = << >>
    THEN Loaded("TypeError", NoDoc)
    ELSE Loaded("none",
           [speakers |->
               [i \in 1..Len(content[1].speakers) |->
                   Speaker(ParseQuoted(content[1].speakers[i].id).val,
                           ParseName(content[1].speakers[i].name).val)],
            utterances |->
               [i \in 1..Len(content[2].utterances) |->
                   Utterance(ParseQuoted(content[2].utterances[i].speaker).val,
                             ParseFloat(content[2].utterances[i].start),
                             ParseFloat(content[2].utterances[i].end),
                             ParseQuoted(content[2].utterances[i].text).val)],
            duration_seconds |-> StrInt(content[1].duration_seconds),
            labeled |-> IF "labeled" \in content[1].keys
                        THEN content[1].labeled = BoolStr(TRUE) ELSE FALSE])

\* ------------------------------------------------------ SpecDoc: actions
\* The transcript file of SpecDoc, its audio file and its summary file.
DocPath == 1
DocAudioPath == 1
DocSummaryPath == 1
\* The value of the speakers column written by save-labels (", ".join of
\* the participants; the store does not look into it).
JoinedNames == 1

\* num_samples and the page step of the unified screen's sample display.
UnifiedSamples == 3
PageStep == 3

\* The utterances of a transcription in which the i-th utterance is spoken
\* by who[i]: half a second of silence, then half a second of speech.
UtterancesOf(who) ==
    [i \in 1..Len(who) |->
        Utterance(who[i], 10 * (i - 1) + 5, 10 * i, TextOf(i))]

RECURSIVE SortedIds(_, _)
\* sorted(set(...)): the identifiers of S in the order of SpeakerIds.
SortedIds(S, i) ==
    IF i > Len(SpeakerIds) THEN << >>
    ELSE (IF SpeakerIds[i] \in S THEN << SpeakerIds[i] >> ELSE << >>)
         \o SortedIds(S, i + 1)

\* convert_to_transcript_data: one unnamed speaker per identifier that
\* speaks, not labeled.
convert_to_transcript_data(utterances, duration) ==
    LET ids == SortedIds({utterances[i].speaker : i \in 1..Len(utterances)}, 1)
    IN  [speakers |-> [i \in 1..Len(ids) |-> Speaker(ids[i], None)],
         utterances |-> utterances,
         duration_seconds |-> duration,
         labeled |-> FALSE]

\* The store after the transcription of DocAudioPath into DocPath at time t
\* (MainMenuScreen._process_files).
Transcribed(t) ==
    LET d1 == add_audio(Db({}, {}, 0), DocAudioPath, t).db
        d2 == mark_transcribed(d1, DocAudioPath, DocPath, t).db
    IN  add_transcript(d2, DocPath, get_audio_id(d1, DocAudioPath),
                       NULL, t).db

\* The recorder is idle.
RecorderIdle ==
    /\ fs = NoMarkers
    /\ procs = [pid \in Pids |-> "none"]
    /\ now = 0
    /\ recorded = 0
    /\ last = [op |-> "none", res |-> "ok", ret |-> Absent,
               wasRecording |-> FALSE, wasPaused |-> FALSE]
    /\ pc = [r \in Recorders |-> "idle"]
    /\ loc = [r \in Recorders |->
                 [pid |-> Absent, out |-> Absent, i |-> 0, res |-> "none"]]

\* A recording of up to MaxDocUtts utterances has been transcribed and its
\* transcript is loaded in the screen.
InitDoc ==
    /\ RecorderIdle
    /\ FlowIdle
    /\ PollIdle
    /\ DeleteIdle
    /\ \E k \in 1..MaxDocUtts :
          \E who \in [1..k -> Range(SpeakerIds)] :
              /\ doc = convert_to_transcript_data(UtterancesOf(who), k)
              /\ yaml = to_yaml(doc)
              /\ audio_files = Transcribed(0).audio_files
              /\ transcripts = Transcribed(0).transcripts
              /\ lastrowid = Transcribed(0).lastrowid
    /\ dbres = [op |-> "none", path |-> NULL, ret |-> NULL, known |-> FALSE]
    /\ steps = 0
    /\ summary = << >>
    /\ docres = [NoDocRes EXCEPT
                    !.origin = [i \in 1..Len(doc.utterances) |->
                                   doc.utterances[i].speaker]]
    /\ docsteps = 0

DocCounted ==
    /\ docsteps < MaxDocSteps
    /\ docsteps' = docsteps + 1

\* A document operation has ended: the history takes its new value; the
\* recorder, the clock and the store's history are untouched.
DocReturned(op, arg, ret, raised) ==
    /\ docres' = [op |-> op, pre |-> doc, presummary |-> summary,
                  arg |-> arg, ret |-> ret, raised |-> raised,
                  origin |-> docres.origin]
    /\ UNCHANGED << fs, procs, now, recorded, last, pc, loc, dbres, steps,
                    flowVars, pollVars, deleteVars >>

DocArg(speaker, name, num_samples, offset) ==
    [speaker |-> speaker, name |-> name,
     num_samples |-> num_samples, offset |-> offset]

\* TranscriptData.get_speaker_samples(speaker_id, num_samples)
GetSpeakerSamples ==
    \E speaker_id \in Range(SpeakerIds), num_samples \in 1..MaxSamples :
        /\ DocReturned("get_speaker_samples",
                       DocArg(speaker_id, None, num_samples, 0),
                       get_speaker_samples(doc, speaker_id, num_samples),
                       "none")
        /\ UNCHANGED << doc, summary, yaml, docsteps,
                        audio_files, transcripts, lastrowid >>

\* UnifiedScreen._show_current_speaker: get_speaker_samples is called with
\* the keyword offset, which it does not take.
ShowCurrentSpeaker ==
    \E index \in 1..Len(doc.speakers), page \in 0..1 :
        /\ DocReturned("show_current_speaker",
                       DocArg(doc.speakers[index].id, None,
                              UnifiedSamples, page * PageStep),
                       << >>, "TypeError")
        /\ UNCHANGED << doc, summary, yaml, docsteps,
                        audio_files, transcripts, lastrowid >>

\* TranscriptData.set_speaker_name(speaker_id, name)
SetSpeakerName ==
    \E speaker_id \in Range(SpeakerIds), name \in TypedNames :
        /\ DocCounted
        /\ doc' = set_speaker_name(doc, speaker_id, name)
        /\ DocReturned("set_speaker_name",
                       DocArg(speaker_id, name, 0, 0), << >>, "none")
        /\ UNCHANGED << summary, yaml, audio_files, transcripts, lastrowid >>

\* TranscriptData.replace_speaker_ids_with_names()
ReplaceSpeakerIds ==
    /\ DocCounted
    /\ doc' = replace_speaker_ids_with_names(doc)
    /\ DocReturned("replace_speaker_ids_with_names",
                   DocArg(None, None, 0, 0), << >>, "none")
    /\ UNCHANGED << summary, yaml, audio_files, transcripts, lastrowid >>

\* _save_current_speaker_name: the stripped input, if not empty, becomes the
\* name of the speaker shown.
save_current_speaker_name(d, index, typed) ==
    IF Truthy(typed)
    THEN set_speaker_name(d, d.speakers[index].id, typed)
    ELSE d

labeled_always(d) == TRUE

\* The test under which save-labels marks the transcript labeled.
labeled_now(d) == all_labeled(d)

\* The document that UnifiedScreen.action_save_labels leaves in memory and
\* in the file, the rename map being rename_map.
saved_document(d, rename_map) ==
    LET renamed == rename_utterances(replace_speaker_ids_with_names(d),
                                     rename_map)
    IN  IF labeled_now(d) THEN mark_labeled_doc(renamed) ELSE renamed

\* The store after save-labels: labeled_at is written if the document is
\* marked labeled.
SavedStore(d, t) ==
    IF labeled_now(d)
    THEN mark_labeled(TheDb, DocPath, JoinedNames, t).db
    ELSE TheDb

\* _update_summary_file: nothing to do without a summary path in the store
\* or without the file.
update_summary_file(d, content, rename_map) ==
    IF get_summary_path(d, DocPath) = NULL \/ content = << >>
    THEN content
    ELSE update_summary(content, rename_map)

\* UnifiedScreen.action_save_labels with speaker index shown and typed in
\* the input.
SaveLabels ==
    \E index \in 1..Len(doc.speakers), typed \in TypedNames \cup {None} :
        LET named == save_current_speaker_name(doc, index, typed)
        IN  \E ord \in Orders(UttSpeakers(named)) :
                LET rename_map == build_speaker_rename_map(named, ord)
                IN  /\ DocCounted
                    /\ doc' = saved_document(named, rename_map)
                    /\ audio_files' = SavedStore(named, now).audio_files
                    /\ transcripts' = SavedStore(named, now).transcripts
                    /\ lastrowid' = SavedStore(named, now).lastrowid
                    /\ yaml' = to_yaml(doc')
                    /\ summary' = IF rename_map # << >>
                                  THEN update_summary_file(
                                          SavedStore(named, now),
                                          summary, rename_map)
                                  ELSE summary
                    /\ DocReturned("save_labels",
                                   DocArg(doc.speakers[index].id, typed, 0, 0),
                                   rename_map, "none")

\* LabelingScreen.action_save_labels: the same without renames.
LabelingSaveLabels ==
    \E index \in 1..Len(doc.speakers), typed \in TypedNames \cup {None} :
        LET named == save_current_speaker_name(doc, index, typed)
        IN  /\ DocCounted
            /\ doc' = saved_document(named, << >>)
            /\ audio_files' = SavedStore(named, now).audio_files
            /\ transcripts' = SavedStore(named, now).transcripts
            /\ lastrowid' = SavedStore(named, now).lastrowid
            /\ yaml' = to_yaml(doc')
            /\ UNCHANGED summary
            /\ DocReturned("labeling_save_labels",
                           DocArg(doc.speakers[index].id, typed, 0, 0),
                           << >>, "none")

\* LabelingScreen.action_generate_summary and its worker, the summarizer
\* succeeding: the summary file is written and recorded in the store.
SummaryGenerated ==
    \E text \in SummaryTexts, title \in Titles :
        /\ doc.labeled
        /\ summary = << >>
        /\ DocCounted
        /\ summary' = text
        /\ audio_files' = audio_files
        /\ transcripts' =
              update_meeting_title(
                 mark_summarized(TheDb, DocPath, DocSummaryPath, now).db,
                 DocPath, title).db.transcripts
        /\ lastrowid' = lastrowid
        /\ DocReturned("generate_summary", DocArg(None, None, 0, 0),
                       << >>, "none")
        /\ UNCHANGED << doc, yaml >>

NextDoc ==
    \/ SetSpeakerName
    \/ ReplaceSpeakerIds
    \/ SaveLabels
    \/ LabelingSaveLabels
    \/ SummaryGenerated

SpecDoc ==
    InitDoc /\ [][NextDoc]_vars

\* ------------------------------------------------------- SpecDoc: claims
\* The transcript record of the document in the store.
DocRecord == CHOOSE x \in transcripts : x.path = DocPath

\* C26: replace_speaker_ids_with_names() rewrites the speaker of exactly
\* the utterances whose speaker value is the id of a speaker entry with a
\* non-empty name, to that entry's name, in one simultaneous pass (a name
\* that is itself an identifier is not replaced again); every other
\* utterance, the order, the times and texts and the speaker list are
\* unchanged.
C26_ReplaceIdsOnePass ==
    docres.op = "replace_speaker_ids_with_names"
        => /\ doc.speakers = docres.pre.speakers
           /\ doc.labeled = docres.pre.labeled
           /\ Len(doc.utterances) = Len(docres.pre.utterances)
           /\ \A i \in 1..Len(doc.utterances) :
                 LET old == docres.pre.utterances[i]
                     entries == {j \in 1..Len(docres.pre.speakers) :
                                    /\ docres.pre.speakers[j].id = old.speaker
                                    /\ docres.pre.speakers[j].name # None}
                 IN  /\ doc.utterances[i].text = old.text
                     /\ doc.utterances[i].start = old.start
                     /\ doc.utterances[i].end = old.end
                     /\ entries = {} => doc.utterances[i].speaker = old.speaker
                     /\ \A j \in entries :
                           doc.utterances[i].speaker = docres.pre.speakers[j].name

\* A named "B" and B named "Bob": the utterance of A now carries "B" and
\* the utterance of B carries "Bob".
C26_Witness ==
    /\ docres.op = "replace_speaker_ids_with_names"
    /\ \E i, j \in 1..Len(doc.utterances) :
          /\ docres.pre.utterances[i].speaker = <<"A">>
          /\ doc.utterances[i].speaker = <<"B">>
          /\ docres.pre.utterances[j].speaker = <<"B">>
          /\ doc.utterances[j].speaker = <<"B", "o", "b">>

\* A save-labels handler of either screen has just run.
LabelsSaved == docres.op \in {"save_labels", "labeling_save_labels"}

\* Every speaker entry of the document has a non-empty name.
AllNamed == \A i \in 1..Len(doc.speakers) : doc.speakers[i].name # None

\* C27: save-labels sets the labeled flag of the document and labeled_at of
\* the store only if every speaker has a non-empty name at that moment; a
\* partial labeling writes the names to the file and leaves the flag false
\* and labeled_at unset (the transcript still counts as unlabeled).
C27_LabeledOnlyIfAllNamed ==
    LabelsSaved
        => /\ doc.labeled => AllNamed
           /\ DocRecord.labeled_at # NULL => AllNamed
           /\ ~AllNamed
                 => /\ ~doc.labeled
                    /\ DocRecord.labeled_at = NULL
                    /\ from_yaml(yaml).raised = "none"
                    /\ from_yaml(yaml).doc.speakers = doc.speakers
                    /\ ~from_yaml(yaml).doc.labeled

\* A partial labeling has been saved: one of two speakers has a name.
C27_Witness ==
    /\ LabelsSaved
    /\ ~AllNamed
    /\ \E i \in 1..Len(doc.speakers) : doc.speakers[i].name # None
    /\ ~doc.labeled
    /\ DocRecord.labeled_at = NULL

\* The utterances before the save carry raw identifiers: every speaker
\* value is an identifier and every identifier still speaks.
FirstPass ==
    {docres.pre.utterances[i].speaker : i \in 1..Len(docres.pre.utterances)}
        = {docres.pre.speakers[i].id : i \in 1..Len(docres.pre.speakers)}

\* C28: on a first labeling pass the rename map built by save-labels is
\* exactly { identifier -> name } over the speakers that have a non-empty
\* name different from their identifier (every identifier speaks).
C28_FirstPassMap ==
    docres.op = "save_labels" /\ FirstPass
        => /\ Range(docres.ret) =
                 {<< doc.speakers[i].id, doc.speakers[i].name >> :
                     i \in {j \in 1..Len(doc.speakers) :
                               /\ doc.speakers[j].name # None
                               /\ \E k \in 1..Len(docres.pre.utterances) :
                                     docres.pre.utterances[k].speaker
                                        = doc.speakers[j].id
                               /\ doc.speakers[j].name # doc.speakers[j].id}}
           /\ Cardinality(Range(docres.ret)) = Len(docres.ret)

\* A first pass has named A "B" and B "Bob": the map has both entries.
C28_Witness ==
    /\ docres.op = "save_labels"
    /\ FirstPass
    /\ Range(docres.ret) = { << <<"A">>, <<"B">> >>,
                             << <<"B">>, <<"B", "o", "b">> >> }

\* The name speaker_id had before the save.
NameBefore(speaker_id) ==
    docres.pre.speakers[CHOOSE i \in 1..Len(docres.pre.speakers) :
                           docres.pre.speakers[i].id = speaker_id].name

\* The save is a second or later pass over two or more speakers: the
\* document was labeled, the speakers have distinct names and the
\* utterances carry exactly these names.
LaterPass ==
    /\ Len(docres.pre.speakers) >= 2
    /\ docres.pre.labeled
    /\ \A i, j \in 1..Len(docres.pre.speakers) :
          i # j => docres.pre.speakers[i].name # docres.pre.speakers[j].name
    /\ {docres.pre.utterances[i].speaker : i \in 1..Len(docres.pre.utterances)}
          = {docres.pre.speakers[i].name : i \in 1..Len(docres.pre.speakers)}

\* C29: on a second or later labeling pass of a document with two or more
\* speakers in which exactly one speaker's name is changed, the rename map
\* built by save-labels is exactly { that speaker's old name -> its new
\* name }.
C29_LaterPassMap ==
    /\ docres.op = "save_labels"
    /\ LaterPass
    /\ docres.arg.name # None
    /\ docres.arg.name # NameBefore(docres.arg.speaker)
    => docres.ret = << << NameBefore(docres.arg.speaker), docres.arg.name >> >>

\* key is a whole token of c starting at position i: a maximal run of
\* characters other than the blank.
TokenAt(c, i, key) ==
    /\ i + Len(key) - 1 <= Len(c)
    /\ SubSeq(c, i, i + Len(key) - 1) = key
    /\ i = 1 \/ c[i - 1] = " "
    /\ i + Len(key) - 1 = Len(c) \/ c[i + Len(key)] = " "

RECURSIVE Simultaneous(_, _, _)
\* c from position i on with every whole token that is a key of rename_map
\* replaced by its value, the replacements not being looked at again.
Simultaneous(c, i, rename_map) ==
    IF i > Len(c) THEN << >>
    ELSE IF \E e \in Range(rename_map) : TokenAt(c, i, e[1])
         THEN LET e == CHOOSE e \in Range(rename_map) : TokenAt(c, i, e[1])
              IN  e[2] \o Simultaneous(c, i + Len(e[1]), rename_map)
         ELSE << c[i] >> \o Simultaneous(c, i + 1, rename_map)

\* C30: save-labels leaves the summary with every whole-token occurrence of
\* an old speaker value replaced by its new name and nothing else changed:
\* parts of longer words are untouched and text put in by one entry of the
\* rename map is not replaced again by another.
C30_NoDoubleSubstitution ==
    docres.op = "save_labels" /\ DocRecord.summary_path # NULL
        => summary = Simultaneous(docres.presummary, 1, docres.ret)

\* C33: save-labels is idempotent on an already-labeled document: saving a
\* labeled transcript with two or more speakers again without changing a
\* name gives an empty rename map and leaves every utterance's speaker value
\* and the summary file unchanged.
C33_ResaveIdempotent ==
    /\ docres.op = "save_labels"
    /\ LaterPass
    /\ \/ docres.arg.name = None
       \/ docres.arg.name = NameBefore(docres.arg.speaker)
    => /\ docres.ret = << >>
       /\ doc.utterances = docres.pre.utterances
       /\ summary = docres.presummary

\* The current name of the speaker entry with identifier speaker_id.
NameNow(speaker_id) ==
    doc.speakers[CHOOSE i \in 1..Len(doc.speakers) :
                    doc.speakers[i].id = speaker_id].name

\* C34: save-labels preserves the attribution of the utterances: once every
\* speaker is named, every utterance's speaker value is the current name of
\* the speaker entry that spoke it in the transcription, so the utterances of
\* two speakers are never merged under one name.
C34_AttributionPreserved ==
    docres.op = "save_labels" /\ AllNamed
        => \A k \in 1..Len(doc.utterances) :
               doc.utterances[k].speaker = NameNow(docres.origin[k])

\* ------------------------------------------------------ SpecYaml: actions
\* Longest utterance text drawn, and most documents in a transcript file.
MaxTextLen == 2
MaxSections == 3

\* The characters of the drawn texts: a letter, the double quote and the
\* backslash.
TextChars == {"a", DQ, BS}

Texts == UNION {[1..n -> TextChars] : n \in 0..MaxTextLen}

\* The names the speakers of d may have been given, one choice per speaker.
Namings(d) == [1..Len(d.speakers) -> TypedNames \cup {None}]

Named(d, naming) ==
    [d EXCEPT !.speakers =
        [i \in 1..Len(d.speakers) |-> Speaker(d.speakers[i].id, naming[i])]]

\* A transcript with a drawn first text, as transcribed, or with names
\* given, or saved by LabelingScreen.action_save_labels with these names.
YamlDocs ==
    UNION {
      UNION {
        LET raw == convert_to_transcript_data(
                      [UtterancesOf(who) EXCEPT ![1].text = text], Len(who))
        IN  {Named(raw, naming) : naming \in Namings(raw)}
            \cup {saved_document(Named(raw, naming), << >>) :
                     naming \in Namings(raw)}
        : who \in UNION {[1..k -> Range(SpeakerIds)] : k \in 1..MaxUtts} }
      : text \in Texts }

\* A transcript is in memory; its file has not been written yet.
InitYaml ==
    /\ RecorderIdle
    /\ FlowIdle
    /\ PollIdle
    /\ DeleteIdle
    /\ audio_files = {}
    /\ transcripts = {}
    /\ lastrowid = 0
    /\ dbres = [op |-> "none", path |-> NULL, ret |-> NULL, known |-> FALSE]
    /\ steps = 0
    /\ doc \in YamlDocs
    /\ yaml = << >>
    /\ summary = << >>
    /\ docres = NoDocRes
    /\ docsteps = 0

\* A step that touches neither the store nor the summary.
FileOnly ==
    UNCHANGED << audio_files, transcripts, lastrowid, summary, docsteps >>

\* TranscriptData.save(path)
Save ==
    /\ yaml' = to_yaml(doc)
    /\ DocReturned("save", DocArg(None, None, 0, 0), << >>, "none")
    /\ UNCHANGED doc
    /\ FileOnly

\* TranscriptData.load(path): the document read, or the exception.
Load ==
    /\ doc' = IF from_yaml(yaml).raised = "none"
              THEN from_yaml(yaml).doc ELSE doc
    /\ DocReturned("load", DocArg(None, None, 0, 0), << >>,
                   from_yaml(yaml).raised)
    /\ UNCHANGED yaml
    /\ FileOnly

\* The file is edited outside the program: its last document is removed.
DropSection ==
    /\ yaml # << >>
    /\ yaml' = SubSeq(yaml, 1, Len(yaml) - 1)
    /\ DocReturned("edit", DocArg(None, None, 0, 0), << >>, "none")
    /\ UNCHANGED doc
    /\ FileOnly

\* The file is edited outside the program: a further document, a copy of
\* the last one, is added after a "---" line.
AppendSection ==
    /\ yaml # << >>
    /\ Len(yaml) < MaxSections
    /\ yaml' = Append(yaml, yaml[Len(yaml)])
    /\ DocReturned("edit", DocArg(None, None, 0, 0), << >>, "none")
    /\ UNCHANGED doc
    /\ FileOnly

NextYaml ==
    \/ Save
    \/ Load
    \/ DropSection
    \/ AppendSection
    \/ GetSpeakerSamples
    \/ ShowCurrentSpeaker

SpecYaml ==
    InitYaml /\ [][NextYaml]_vars

\* ------------------------------------------------------ SpecYaml: claims
\* C23: round trip: for every transcript with at least one speaker and one
\* utterance (texts over letters, double quotes and backslashes), loading
\* the file that save wrote succeeds and gives back the identical speaker
\* id/name list, utterance list (speaker, start, end, text), duration and
\* labeled flag.
C23_RoundTrip ==
    /\ docres.op = "load"
    /\ yaml = to_yaml(docres.pre)
    /\ docres.pre.speakers # << >>
    /\ docres.pre.utterances # << >>
    => /\ docres.raised = "none"
       /\ doc.speakers = docres.pre.speakers
       /\ doc.utterances = docres.pre.utterances
       /\ doc.duration_seconds = docres.pre.duration_seconds
       /\ doc.labeled = docres.pre.labeled

\* C24: load fails with a format error unless the content holds exactly the
\* two required sections: fewer than two and more than two are rejected.
C24_ExactlyTwoSections ==
    docres.op = "load"
        => /\ docres.raised = "none" => Len(yaml) = 2
           /\ Len(yaml) # 2 => docres.raised \in {"ValueError", "ScannerError"}

\* The positions of the utterances of d spoken by speaker_id.
MatchPositions(d, speaker_id) ==
    {i \in 1..Len(d.utterances) : d.utterances[i].speaker = speaker_id}

\* The position of the n-th utterance of d spoken by speaker_id.
NthMatch(d, speaker_id, n) ==
    CHOOSE i \in MatchPositions(d, speaker_id) :
        Cardinality({j \in MatchPositions(d, speaker_id) : j <= i}) = n

\* C25: get_speaker_samples(speaker_id, count, offset) returns the texts of
\* the matching utterances at match positions offset+1 .. offset+count, in
\* document order: at most count, fewer when exhausted, none when the
\* offset is past the end; the sample display of the screen calls it with
\* an offset.
C25_SamplesPage ==
    docres.op \in {"get_speaker_samples", "show_current_speaker"}
        => LET matches == Cardinality(MatchPositions(doc, docres.arg.speaker))
               left == IF matches > docres.arg.offset
                       THEN matches - docres.arg.offset ELSE 0
               n == IF left < docres.arg.num_samples
                    THEN left ELSE docres.arg.num_samples
           IN  /\ docres.raised = "none"
               /\ Len(docres.ret) = n
               /\ \A k \in 1..n :
                     docres.ret[k] =
                        doc.utterances[NthMatch(doc, docres.arg.speaker,
                                                docres.arg.offset + k)].text

\* ==========================================================================
\* Part 4: the workflow of the screens (src/src/screens/main_menu.py,
\* unified.py, labeling.py) over the store, the transcript files and the
\* summary files.
\*   SpecFlow  two recordings are known to the store.  MainMenuScreen
\*             transcribes the pending ones in a coroutine on the UI thread;
\*             UnifiedScreen starts its transcription and summary workers
\*             with thread=True, so their steps interleave with the UI's
\*             handlers; LabelingScreen summarizes in a coroutine without an
\*             await, which runs to its end once started.
\* A transcript document is reduced to two flags: named (every speaker has a
\* name) and labeled (the header's labeled field).
\* ==========================================================================
Screens ==
    {"unified", "labeling"}

WorkerNames ==
    {"transcribe", "summarize", "regenerate"}

\* summarize_and_save names its output after the transcript's date and
\* participants and the generated title.
SummaryPathOf(transcript_path) ==
    transcript_path

\* transcribe_and_save names its output after the audio file's stem.
TranscriptPathOf(audio_path) ==
    audio_path

\* The document convert_to_transcript_data builds: no names, not labeled.
RawFile ==
    [exists |-> TRUE, named |-> FALSE, labeled |-> FALSE]

\* sqlite3.connect(..., check_same_thread left at its default) is called by
\* TranscribeApp.__init__ on the UI thread: a Database method called on the
\* thread of a worker raises sqlite3.ProgrammingError before any statement
\* runs, and leaves the database as it is.
OnWorkerThread(d) ==
    [db |-> d, raised |-> "ProgrammingError"]

\* ---------------------------------------------------------- store updates
\* Mutant: the audio record is marked before the collaborator is called.
process_file_marks_first(d, audio_path, ok, t) ==
    LET transcript_path == TranscriptPathOf(audio_path)
        audio_id == get_audio_id(d, audio_path)
        d1 == mark_transcribed(d, audio_path, transcript_path, t).db
    IN  IF ~ok THEN d1
        ELSE IF audio_id # NULL
             THEN add_transcript(d1, transcript_path, audio_id, 1, t).db
             ELSE d1

\* One iteration of the loop of MainMenuScreen._process_files: ok is whether
\* transcribe_and_save returned; when it raised, the except clauses only
\* notify.
process_file(d, audio_path, ok, t) ==
    IF ~ok THEN d
    ELSE LET transcript_path == TranscriptPathOf(audio_path)
             audio_id == get_audio_id(d, audio_path)
             d1 == mark_transcribed(d, audio_path, transcript_path, t).db
         IN  IF audio_id # NULL
             THEN add_transcript(d1, transcript_path, audio_id, 1, t).db
             ELSE d1

\* get_pending_audio_files: the paths of the audio rows without a
\* transcription time, oldest first (rows added at the same second come in
\* the order of their ids).
RECURSIVE PendingFrom(_, _)
PendingFrom(rows, acc) ==
    IF rows = {}
    THEN acc
    ELSE LET a == CHOOSE r \in rows :
                     \A q \in rows :
                         \/ r.added_at < q.added_at
                         \/ r.added_at = q.added_at /\ r.id <= q.id
         IN  PendingFrom(rows \ {a}, Append(acc, a.path))

get_pending_audio_files(d) ==
    PendingFrom({a \in d.audio_files : a.transcribed_at = NULL}, << >>)

\* The for loop of _process_files over the list files, from its i-th entry:
\* oks[path] is whether the transcription of path succeeds.
RECURSIVE process_files(_, _, _, _, _)
process_files(d, files, oks, i, t) ==
    IF i > Len(files)
    THEN d
    ELSE process_files(process_file(d, files[i], oks[files[i]], t),
                       files, oks, i + 1, t)

\* LabelingScreen._generate_summary after summarize_and_save: both UPDATEs
\* when it returned (summary_path, generated_title), none when it raised.
record_summary(d, transcript_path, ok, summary_path, generated_title, t) ==
    IF ~ok THEN d
    ELSE update_meeting_title(
             mark_summarized(d, transcript_path, summary_path, t).db,
             transcript_path, generated_title).db

\* Mutant: any loaded transcript may be summarized.
may_summarize_unlabeled(c) ==
    c.path # NULL

\* The two early returns of action_generate_summary and of
\* action_regenerate_summary: a transcript is loaded, and it is labeled.
may_summarize(c) ==
    /\ c.path # NULL
    /\ c.labeled

\* ------------------------------------------------------------ flow actions
\* The store takes the tables of d.
FlowStore(d) ==
    /\ audio_files' = d.audio_files
    /\ transcripts' = d.transcripts
    /\ lastrowid' = d.lastrowid

\* A workflow step has ended: op and, for a step that called a collaborator,
\* the inputs it was called on (calls), those it failed on (failed) and the
\* tables as they were before that step.
FlowReturned(op, calls, failed) ==
    /\ flowres' = [op |-> op, calls |-> calls, failed |-> failed,
                   audio_files |-> IF calls = {} THEN {} ELSE audio_files,
                   transcripts |-> IF calls = {} THEN {} ELSE transcripts]
    /\ UNCHANGED << fs, procs, now, recorded, last, pc, loc, dbres, steps,
                    docVars, pollVars, deleteVars >>

\* Two recordings have been found by the scan of the watch directory.
InitFlow ==
    /\ RecorderIdle
    /\ DocIdle
    /\ FlowIdle
    /\ PollIdle
    /\ DeleteIdle
    /\ LET d1 == add_audio(Db({}, {}, 0), 1, 0).db
           d2 == add_audio(d1, 2, 0).db
       IN  /\ audio_files = d2.audio_files
           /\ transcripts = d2.transcripts
           /\ lastrowid = d2.lastrowid
    /\ dbres = [op |-> "none", path |-> NULL, ret |-> NULL, known |-> FALSE]
    /\ steps = 0

\* MainMenuScreen.action_process_all and its worker _process_files, a
\* coroutine without an await: every pending file is transcribed, and
\* recorded when its transcription succeeded.
ProcessAll ==
    LET files == get_pending_audio_files(TheDb)
    IN  /\ files # << >>
        /\ \E oks \in [Range(files) -> BOOLEAN] :
              /\ FlowStore(process_files(TheDb, files, oks, 1, now))
              /\ transcript_files' =
                     [p \in TranscriptPaths |->
                         IF \E a \in Range(files) :
                                oks[a] /\ TranscriptPathOf(a) = p
                         THEN RawFile
                         ELSE transcript_files[p]]
              /\ FlowReturned("process_files", Range(files),
                              {a \in Range(files) : ~oks[a]})
        /\ UNCHANGED << summary_files, current, workers >>

\* UnifiedScreen.action_transcribe_selected on an item whose stage is
\* "to transcribe": the worker starts with the item's audio path.
TranscribeSelected ==
    \E i \in 1..Len(list_unified(TheDb)) :
        LET item == list_unified(TheDb)[i]
        IN  /\ item.audio_path # NULL
            /\ item.stage \in {"to transcribe", "pending"}
            /\ workers["transcribe"].pc = "idle"
            /\ workers' = [workers EXCEPT
                   !["transcribe"] = [pc |-> "started",
                                      path |-> item.audio_path,
                                      summary_path |-> NULL]]
            /\ FlowReturned("transcribe_selected", {}, {})
            /\ UNCHANGED << audio_files, transcripts, lastrowid,
                            transcript_files, summary_files, current >>

\* UnifiedScreen._transcribe_file up to the return of transcribe_and_save: the
\* transcript file is written, or the exception is caught and the worker
\* ends.
TranscribeCall ==
    \E ok \in BOOLEAN :
        LET w == workers["transcribe"]
        IN  /\ w.pc = "started"
            /\ transcript_files' =
                   IF ok
                   THEN [transcript_files EXCEPT
                            ![TranscriptPathOf(w.path)] = RawFile]
                   ELSE transcript_files
            /\ workers' = [workers EXCEPT
                   !["transcribe"] = IF ok THEN [w EXCEPT !.pc = "saved"]
                                     ELSE WorkerIdle]
            /\ FlowReturned("transcribe", {w.path},
                            IF ok THEN {} ELSE {w.path})
            /\ UNCHANGED << audio_files, transcripts, lastrowid,
                            summary_files, current >>

\* The rest of _transcribe_file: mark_transcribed is called on the worker's
\* thread, raises, and the except clause notifies.
TranscribeRecord ==
    LET w == workers["transcribe"]
    IN  /\ w.pc = "saved"
        /\ FlowStore(OnWorkerThread(TheDb).db)
        /\ workers' = [workers EXCEPT !["transcribe"] = WorkerIdle]
        /\ FlowReturned("record_transcript", {}, {})
        /\ UNCHANGED << transcript_files, summary_files, current >>

\* _load_transcript(path): the screen holds the document read from the file.
LoadedFrom(files, path) ==
    [path |-> path, named |-> files[path].named,
     labeled |-> files[path].labeled]

\* on_data_table_row_selected.  UnifiedScreen loads the transcript of the
\* selected item when it has one whose file exists, and clears the form
\* otherwise; LabelingScreen loads the selected transcript when its file
\* exists and keeps what it holds otherwise.
RowSelected ==
    /\ \/ \E i \in 1..Len(list_unified(TheDb)) :
              LET transcript_path == list_unified(TheDb)[i].transcript_path
                  present == IF transcript_path = NULL
                             THEN FALSE
                             ELSE transcript_files[transcript_path].exists
              IN  current' =
                      [current EXCEPT !["unified"] =
                          IF present
                          THEN LoadedFrom(transcript_files, transcript_path)
                          ELSE NoCurrent]
       \/ \E x \in transcripts :
              /\ transcript_files[x.path].exists
              /\ current' =
                     [current EXCEPT !["labeling"] =
                         LoadedFrom(transcript_files, x.path)]
    /\ FlowReturned("row_selected", {}, {})
    /\ UNCHANGED << audio_files, transcripts, lastrowid, transcript_files,
                    summary_files, workers >>

\* action_save_labels of either screen on the loaded transcript: all_labeled
\* is whether every speaker has a name once the typed name is stored (names
\* are never taken back); then the document and the record are marked, and
\* the file is written in both cases.
FlowSaveLabels ==
    \E s \in Screens :
        LET c == current[s]
        IN  /\ c.path # NULL
            /\ \E all_named \in (IF c.named THEN {TRUE} ELSE BOOLEAN) :
                  LET saved == [path |-> c.path, named |-> all_named,
                                labeled |-> c.labeled \/ all_named]
                  IN  /\ current' = [current EXCEPT ![s] = saved]
                      /\ FlowStore(IF all_named
                                   THEN mark_labeled(TheDb, c.path,
                                                     JoinedNames, now).db
                                   ELSE TheDb)
                      /\ transcript_files' =
                             [transcript_files EXCEPT ![c.path] =
                                 [exists |-> TRUE, named |-> saved.named,
                                  labeled |-> saved.labeled]]
            /\ FlowReturned("save_labels", {}, {})
            /\ UNCHANGED << summary_files, workers >>

\* UnifiedScreen.action_generate_summary: the worker starts in its thread.
GenerateSummary ==
    /\ may_summarize(current["unified"])
    /\ workers["summarize"].pc = "idle"
    /\ workers' = [workers EXCEPT !["summarize"].pc = "started"]
    /\ FlowReturned("generate_summary", {}, {})
    /\ UNCHANGED << audio_files, transcripts, lastrowid, transcript_files,
                    summary_files, current >>

\* UnifiedScreen.action_regenerate_summary: the old summary file is unlinked
\* and the worker starts in its thread.
RegenerateSummary ==
    LET c == current["unified"]
    IN  /\ may_summarize(c)
        /\ get_summary_path(TheDb, c.path) # NULL
        /\ workers["regenerate"].pc = "idle"
        /\ summary_files' = summary_files \ {get_summary_path(TheDb, c.path)}
        /\ workers' = [workers EXCEPT !["regenerate"].pc = "started"]
        /\ FlowReturned("regenerate_summary", {}, {})
        /\ UNCHANGED << audio_files, transcripts, lastrowid,
                        transcript_files, current >>

\* summarize_and_save(transcript_path, ...) can return only when the
\* transcript file can be loaded.
CanSummarize(transcript_path) ==
    IF transcript_path = NULL
    THEN FALSE
    ELSE transcript_files[transcript_path].exists

\* UnifiedScreen._generate_summary and _regenerate_summary up to the return
\* of summarize_and_save, which is given self.current_transcript_path as it
\* is when the worker reaches the call: the summary file is written, or the
\* exception is caught and the worker ends.
SummarizeCall ==
    \E w \in {"summarize", "regenerate"}, ok \in BOOLEAN :
        LET transcript_path == current["unified"].path
            summary_path == SummaryPathOf(transcript_path)
        IN  /\ workers[w].pc = "started"
            /\ ok => CanSummarize(transcript_path)
            /\ summary_files' = IF ok
                                THEN summary_files \cup {summary_path}
                                ELSE summary_files
            /\ workers' = [workers EXCEPT
                   ![w] = IF ok
                          THEN [pc |-> "saved", path |-> transcript_path,
                                summary_path |-> summary_path]
                          ELSE WorkerIdle]
            /\ FlowReturned("summarize", {transcript_path},
                            IF ok THEN {} ELSE {transcript_path})
            /\ UNCHANGED << audio_files, transcripts, lastrowid,
                            transcript_files, current >>

\* The rest of the worker: mark_summarized is called on the worker's thread,
\* raises, and the except clause notifies.
SummaryRecord ==
    \E w \in {"summarize", "regenerate"} :
        /\ workers[w].pc = "saved"
        /\ FlowStore(OnWorkerThread(TheDb).db)
        /\ workers' = [workers EXCEPT ![w] = WorkerIdle]
        /\ FlowReturned("record_summary", {}, {})
        /\ UNCHANGED << transcript_files, summary_files, current >>

\* LabelingScreen.action_generate_summary and its worker _generate_summary, a
\* coroutine on the UI thread without an await: the summary is written and
\* recorded, or the exception is caught.
LabelingGenerateSummary ==
    \E ok \in BOOLEAN, generated_title \in Titles :
        LET c == current["labeling"]
            summary_path == SummaryPathOf(c.path)
        IN  /\ may_summarize(c)
            /\ ok => CanSummarize(c.path)
            /\ summary_files' = IF ok
                                THEN summary_files \cup {summary_path}
                                ELSE summary_files
            /\ FlowStore(record_summary(TheDb, c.path, ok, summary_path,
                                        generated_title, now))
            /\ FlowReturned("summarize", {c.path},
                            IF ok THEN {} ELSE {c.path})
            /\ UNCHANGED << transcript_files, current, workers >>

NextFlow ==
    \/ ProcessAll
    \/ TranscribeSelected
    \/ TranscribeCall
    \/ TranscribeRecord
    \/ RowSelected
    \/ FlowSaveLabels
    \/ GenerateSummary
    \/ RegenerateSummary
    \/ SummarizeCall
    \/ SummaryRecord
    \/ LabelingGenerateSummary

SpecFlow ==
    InitFlow /\ [][NextFlow]_vars

LinkedTranscripts(A, T, audio_path) ==
    {x \in T : \E a \in A : a.path = audio_path /\ x.audio_file_id = a.id}

\* C22: when the transcription or summarization collaborator fails, the
\* store is left unmutated: a failed transcription leaves the audio record
\* as it was (a pending one with transcribed_at and transcript_path unset)
\* and adds no transcript record, a failed summarization leaves the transcript's record as it was,
\* and a step none of whose collaborator calls succeeded leaves both tables
\* as they were.
C22_FailureLeavesStore ==
    /\ flowres.op \in {"process_files", "transcribe"} =>
          \A p \in flowres.failed :
              /\ {a \in audio_files : a.path = p}
                   = {a \in flowres.audio_files : a.path = p}
              /\ LinkedTranscripts(audio_files, transcripts, p)
                   = LinkedTranscripts(flowres.audio_files,
                                       flowres.transcripts, p)
    /\ flowres.op = "summarize" =>
          \A p \in flowres.failed :
              {x \in transcripts : x.path = p}
                = {x \in flowres.transcripts : x.path = p}
    /\ flowres.op \in {"process_files", "transcribe", "summarize"}
         /\ flowres.failed = flowres.calls =>
          /\ audio_files = flowres.audio_files
          /\ transcripts = flowres.transcripts

\* One transcription of a batch failed and another succeeded.
C22_Witness ==
    /\ flowres.op = "process_files"
    /\ flowres.failed # {}
    /\ flowres.failed # flowres.calls
    /\ transcripts # flowres.transcripts

\* C35: a summary worker of the unified screen records its result against the
\* transcript it summarized, however row selections interleave with it: when
\* the worker ends after summarize_and_save returned, mark_summarized and
\* update_meeting_title have been applied to the transcript whose path was
\* given to the summarizer, with the summary path it returned, and every
\* other transcript record is as it was.
C35_RecordedAgainstSummarized ==
    [][\A w \in {"summarize", "regenerate"} :
           workers[w].pc = "saved" /\ workers'[w].pc = "idle" =>
               /\ \E x \in transcripts' :
                      /\ x.path = workers[w].path
                      /\ x.summarized_at # NULL
                      /\ x.summary_path = workers[w].summary_path
               /\ {x \in transcripts' : x.path # workers[w].path}
                    = {x \in transcripts : x.path # workers[w].path}]_vars

\* C37: whenever no summary worker is running, a transcript record that is
\* summarized and has a summary_path has its summary file on disk; this
\* includes the state after a regeneration whose summarizer call failed.
C37_SummaryFileExists ==
    workers["summarize"].pc = "idle" /\ workers["regenerate"].pc = "idle"
        => \A x \in transcripts :
               x.summarized_at # NULL /\ x.summary_path # NULL
                   => x.summary_path \in summary_files

\* C38: when the transcription collaborator succeeded for an audio file, the
\* worker records both steps before it ends: the audio record has
\* transcribed_at and transcript_path, a transcript record linked to it
\* exists, and no other audio record has changed.
C38_TranscriptionRecorded ==
    [][workers["transcribe"].pc = "saved" /\ workers'["transcribe"].pc = "idle"
           => LET audio_path == workers["transcribe"].path
              IN  /\ \E a \in audio_files' :
                         /\ a.path = audio_path
                         /\ a.transcribed_at # NULL
                         /\ a.transcript_path = TranscriptPathOf(audio_path)
                  /\ LinkedTranscripts(audio_files', transcripts', audio_path)
                       # {}
                  /\ {a \in audio_files' : a.path # audio_path}
                       = {a \in audio_files : a.path # audio_path}]_vars

\* ======================================================================
\* Part 5: Transcriber.poll_transcription (SpecPoll, SpecPollFair)
\* ======================================================================

\* The statuses the transcription service gives a job, in the order it moves
\* through them; the last two are terminal.
TerminalStatuses == {"completed", "error"}

\* response.status_code of a poll: success, or one of two failures.
HttpCodes == {200, 401, 500}

\* The number of polls is counted up to MaxPolls and no further; the loop
\* itself has no limit.
MaxPolls == 6

\* The loop body of poll_transcription after session.get has returned a
\* response with this status_code whose JSON body has this status.
poll_transcription_ignores_http(p, status_code, status) ==
    LET q == [p EXCEPT !.status_code = status_code, !.status = status]
    IN  IF status = "completed"
        THEN [q EXCEPT !.pc = "returned", !.ret = status]
        ELSE IF status = "error"
             THEN [q EXCEPT !.pc = "raised", !.ret = "TranscriptionError"]
             ELSE [q EXCEPT !.pc = "sleeping"]

poll_transcription(p, status_code, status) ==
    LET q == [p EXCEPT !.status_code = status_code, !.status = status]
    IN  IF status_code # 200
        THEN [q EXCEPT !.pc = "raised", !.ret = "TranscriptionError"]
        ELSE IF status = "completed"
             THEN [q EXCEPT !.pc = "returned", !.ret = status]
             ELSE IF status = "error"
                  THEN [q EXCEPT !.pc = "raised",
                                 !.ret = "TranscriptionError"]
                  ELSE [q EXCEPT !.pc = "sleeping"]

\* poll_transcription has been called for a job the service has queued.
InitPoll ==
    /\ RecorderIdle
    /\ DocIdle
    /\ FlowIdle
    /\ DeleteIdle
    /\ audio_files = {}
    /\ transcripts = {}
    /\ lastrowid = 0
    /\ dbres = [op |-> "none", path |-> NULL, ret |-> NULL, known |-> FALSE]
    /\ steps = 0
    /\ poll = [NoPoll EXCEPT !.pc = "polling"]
    /\ service = "queued"

PollUnchanged ==
    UNCHANGED << fs, procs, now, recorded, last, pc, loc, storeVars, docVars,
                 flowVars, deleteVars >>

\* The service works on the job and ends it one way or the other.
ServiceAdvances ==
    /\ \/ service = "queued" /\ service' = "processing"
       \/ service = "processing" /\ service' \in TerminalStatuses
    /\ UNCHANGED poll
    /\ PollUnchanged

\* One pass of the while loop up to the return, the raise or the call of
\* time.sleep: the GET is answered with the service's status, or fails at the
\* HTTP level with a body that has no status.
Poll ==
    /\ poll.pc = "polling"
    /\ \E status_code \in HttpCodes :
          LET status == IF status_code = 200 THEN service ELSE "none"
              counted == [poll EXCEPT
                            !.polls = IF poll.polls < MaxPolls
                                      THEN poll.polls + 1
                                      ELSE MaxPolls]
          IN  poll' = poll_transcription(counted, status_code, status)
    /\ UNCHANGED service
    /\ PollUnchanged

\* time.sleep(poll_interval) returns and the loop starts its next pass.
Wake ==
    /\ poll.pc = "sleeping"
    /\ poll' = [poll EXCEPT !.pc = "polling"]
    /\ UNCHANGED service
    /\ PollUnchanged

NextPoll ==
    \/ ServiceAdvances
    \/ Poll
    \/ Wake

SpecPoll ==
    InitPoll /\ [][NextPoll]_vars

\* The loop runs in its caller's thread until it returns or raises, and the
\* service answers every GET.
SpecPollFair ==
    SpecPoll /\ WF_vars(Poll) /\ WF_vars(Wake)

\* The most recent poll reported a terminal status or failed at HTTP level.
PollEnds ==
    \/ poll.status_code # 200
    \/ poll.status \in TerminalStatuses

\* C32 (state part): poll_transcription has returned exactly when its last
\* poll was a success reporting "completed", and then it returned that
\* response; it has raised TranscriptionError exactly when its last poll
\* reported "error" or was a non-success HTTP response; after any other poll
\* it sleeps or polls again.
C32_Outcome ==
    /\ poll.pc = "returned" <=>
          poll.polls > 0 /\ poll.status_code = 200
              /\ poll.status = "completed"
    /\ poll.pc = "returned" => poll.ret = "completed"
    /\ poll.pc = "raised" <=>
          poll.polls > 0
              /\ (poll.status_code # 200 \/ poll.status = "error")
    /\ poll.pc = "raised" => poll.ret = "TranscriptionError"
    /\ poll.pc \in {"sleeping", "polling"} /\ poll.polls > 0 => ~PollEnds

\* C32 (step part): once it has returned or raised it polls no more, so the
\* poll that ended it was the first to report a terminal status or a failure.
C32_EndsOnce ==
    poll.pc \in {"returned", "raised"} => poll' = poll

\* C32: poll_transcription keeps polling while the status is non-terminal and
\* ends only by returning the response of a poll that reports "completed" or
\* by raising TranscriptionError on the first poll that reports "error" or a
\* non-success HTTP response; once the service holds a terminal status the
\* call ends, and until a poll ends it every sleep is followed by another
\* poll, without a limit on their number.
C32_PollContract ==
    /\ []C32_Outcome
    /\ [][C32_EndsOnce]_vars
    /\ (service \in TerminalStatuses) ~> (poll.pc \in {"returned", "raised"})
    /\ (poll.pc = "sleeping") ~> (poll.pc = "polling")

\* The call returned after having polled while the job was not finished.
C32_Witness ==
    /\ poll.pc = "returned"
    /\ poll.polls = MaxPolls

\* ======================================================================
\* Part 6: the double-press deletion of UnifiedScreen (SpecDelete)
\* ======================================================================

\* The delay of the timer that disarms a delete press, in seconds.
DeleteDelay == 3

\* The clock of SpecDelete stops at MaxDeleteTime, and at most MaxPresses
\* delete presses are followed.
MaxDeleteTime == 4
MaxPresses == 4

\* _reset_delete_pending on the screen's two fields: the pending path is
\* cleared, and a timer that is still referenced is cancelled and dropped (a
\* timer that has fired already is not undone by cancel()).
reset_delete_pending_keeps_path(pending, timer) ==
    [pending |-> pending, timer |-> NoTimer]

reset_delete_pending(pending, timer) ==
    [pending |-> NULL, timer |-> NoTimer]

\* The loop of _refresh_table over the watch directory: add_audio for every
\* file, in the order iterdir() yields them.
RECURSIVE add_scanned(_, _, _, _)
add_scanned(d, order, i, t) ==
    IF i > Len(order)
    THEN d
    ELSE add_scanned(add_audio(d, order[i], t).db, order, i + 1, t)

\* The audio files on disk that list_unified() does not show.
Unlisted(d, disk) ==
    {path \in disk :
        ~\E i \in 1..Len(list_unified(d)) :
            list_unified(d)[i].audio_path = path}

\* UnifiedScreen._refresh_table as far as the store goes.
refresh_table(d, order, t) ==
    add_scanned(d, order, 1, t)

\* The unified screen has been mounted on a store with two recordings; each
\* recording's file may have been removed from the disk since.
InitDelete ==
    /\ RecorderIdle
    /\ DocIdle
    /\ FlowIdle
    /\ PollIdle
    /\ LET d1 == add_audio(Db({}, {}, 0), 1, 0).db
           d2 == add_audio(d1, 2, 0).db
       IN  /\ audio_files = d2.audio_files
           /\ transcripts = d2.transcripts
           /\ lastrowid = d2.lastrowid
    /\ dbres = [op |-> "none", path |-> NULL, ret |-> NULL, known |-> FALSE]
    /\ steps = 0
    /\ delete_pending_path = NULL
    /\ delete_timer = NoTimer
    /\ reset_calls = 0
    /\ audio_on_disk \in SUBSET AudioPaths
    /\ preceding = NoPress
    /\ presses = 0

DeleteUnchanged ==
    UNCHANGED << fs, procs, recorded, last, pc, loc, dbres, steps, docVars,
                 flowVars, pollVars >>

\* A second of wall-clock time passes.
DeleteTick ==
    /\ now < MaxDeleteTime
    /\ now' = now + 1
    /\ UNCHANGED << audio_files, transcripts, lastrowid, deleteVars >>
    /\ DeleteUnchanged

\* A recording is written into the watch directory.
FileAppears ==
    /\ \E path \in AudioPaths \ audio_on_disk :
          audio_on_disk' = audio_on_disk \cup {path}
    /\ UNCHANGED << now, audio_files, transcripts, lastrowid,
                    delete_pending_path, delete_timer, reset_calls,
                    preceding, presses >>
    /\ DeleteUnchanged

\* The timer's thread, not earlier than DeleteDelay after the press that
\* started it: call_from_thread queues _reset_delete_pending for the UI
\* thread.
TimerFires ==
    /\ delete_timer.state = "waiting"
    /\ now >= delete_timer.due
    /\ delete_timer' = [state |-> "fired", due |-> 0]
    /\ reset_calls' = reset_calls + 1
    /\ UNCHANGED << now, audio_files, transcripts, lastrowid,
                    delete_pending_path, audio_on_disk, preceding, presses >>
    /\ DeleteUnchanged

\* The UI thread runs a queued _reset_delete_pending.
ResetRuns ==
    /\ reset_calls > 0
    /\ LET r == reset_delete_pending(delete_pending_path, delete_timer)
       IN  /\ delete_pending_path' = r.pending
           /\ delete_timer' = r.timer
    /\ reset_calls' = reset_calls - 1
    /\ preceding' = [preceding EXCEPT !.reset_since = TRUE]
    /\ UNCHANGED << now, audio_files, transcripts, lastrowid, audio_on_disk,
                    presses >>
    /\ DeleteUnchanged

\* UnifiedScreen.action_delete_selected on a selected item: the second press
\* on the pending path unlinks the file, deletes the record and refreshes the
\* table; any other press arms the item's path and starts the timer.
DeletePress ==
    /\ presses < MaxPresses
    /\ \E i \in 1..Len(list_unified(TheDb)) :
          LET audio_path == list_unified(TheDb)[i].audio_path
              r == reset_delete_pending(delete_pending_path, delete_timer)
          IN  /\ audio_path # NULL
              /\ IF delete_pending_path = audio_path
                 THEN LET disk == audio_on_disk \ {audio_path}
                          d == delete_audio(TheDb, audio_path).db
                      IN  /\ delete_pending_path' = r.pending
                          /\ delete_timer' = r.timer
                          /\ audio_on_disk' = disk
                          /\ \E order \in Orders(Unlisted(d, disk)) :
                                FlowStore(refresh_table(d, order, now))
                 ELSE /\ delete_pending_path' = audio_path
                      /\ delete_timer' = [state |-> "waiting",
                                          due |-> now + DeleteDelay]
                      /\ UNCHANGED << audio_files, transcripts, lastrowid,
                                      audio_on_disk >>
              /\ preceding' = [path |-> audio_path,
                               deleted |-> delete_pending_path = audio_path,
                               reset_since |-> FALSE]
    /\ presses' = presses + 1
    /\ UNCHANGED << now, reset_calls >>
    /\ DeleteUnchanged

NextDelete ==
    \/ DeleteTick
    \/ FileAppears
    \/ TimerFires
    \/ ResetRuns
    \/ DeletePress

SpecDelete ==
    InitDelete /\ [][NextDelete]_vars

\* The paths that have an audio record.
RecordedPaths(A) == {a.path : a \in A}

\* The preceding delete press was on this path, did not delete, and no reset
\* has run since.
StillArmed(path) ==
    /\ preceding.path = path
    /\ ~preceding.deleted
    /\ ~preceding.reset_since

\* C40: in the unified screen deletion takes a double press.  No step other
\* than a delete press removes an audio file or an audio record.  A delete
\* press on a path removes that path's file and record, and nothing else,
\* when the immediately preceding delete press was on the same path and is
\* still armed (no reset of the timer has run since); every other delete
\* press (a first one, one after the reset, one on another path, one after a
\* deletion) removes nothing and arms its own path.
C40_DoublePress ==
    [][LET removed == RecordedPaths(audio_files) \ RecordedPaths(audio_files')
           unlinked == audio_on_disk \ audio_on_disk'
       IN  IF presses' = presses
           THEN removed = {} /\ unlinked = {}
           ELSE LET path == preceding'.path
                IN  IF StillArmed(path)
                    THEN /\ removed = {path}
                         /\ unlinked \subseteq {path}
                         /\ path \notin audio_on_disk'
                         /\ delete_pending_path' = NULL
                    ELSE /\ removed = {}
                         /\ unlinked = {}
                         /\ delete_pending_path' = path]_vars

\* A second press has deleted a record, after an earlier press on the same
\* path had been disarmed by the timer.
C40_Witness ==
    /\ preceding.deleted
    /\ preceding.path \notin RecordedPaths(audio_files)
    /\ presses >= 3
    /\ reset_calls = 0
    /\ delete_timer.state = "none"
    /\ now >= DeleteDelay

====
